---- MODULE Spec2Model ----
(***************************************************************************)
(* A model of the optional-value container `maybe` of Wmbat/monads:        *)
(*   - src/libreglisse/maybe.hpp  (generic storage "LG", trivial "LT")     *)
(*   - src/monads/maybe.hpp       (generic storage "MG", trivial "MT")     *)
(*   - src/include/monads/maybe.hpp ("IM", the bytes and the flag are      *)
(*     members of maybe itself)                                            *)
(* and of the disjoint union `either` of src/libreglisse/either.hpp: the   *)
(* m_is_left discriminant and the two members m_left, m_right of its union.*)
(* Each container is a slot: the m_is_engaged flag, the value in m_bytes   *)
(* and, as ghost state, the lifetime of the element object in m_bytes.     *)
(***************************************************************************)
EXTENDS Integers, FiniteSets, Sequences, TLC

\* ---------------------------------------------------------------- bounds
NSlots == 2
MaxVal == 2

Slots  == 1..NSlots
Values == 1..MaxVal

\* the content of m_bytes when it holds no determinate element value
Indet == 0
Vals  == Values \cup {Indet}

\* the abstract optional: None, or Some(v)
None == << >>
Some(v) == << v >>

Impl == {"LG", "LT", "MG", "MT", "IM"}

\* lifetime of the element object in m_bytes:
\*   none     - no element (never constructed, or destroyed)
\*   live     - constructed by construct_at, not yet destroyed
\*   moved    - live, and moved from
\*   assigned - written by operator= although no element was constructed
ObjStates == {"none", "live", "moved", "assigned"}

VARIABLES
    st,    \* st[i][s]: container s of implementation i
    abs,   \* abs[s]: the abstract optional run beside container s
    run,   \* the implementations this behaviour runs (fixed by Init)
    last,  \* the operation that led to this state: [op, a, b, arg]
    eff,   \* eff[i]: [d, n, hz] destroy_at calls, construct_at calls, hazards
           \* of it, [calls] the functions it invoked, [ret] what it returned
    est,   \* est[s]: the either s
    eeff   \* the effects of the last operation on eithers, as eff[i]

vars == <<st, abs, run, last, eff, est, eeff>>

\* a slot holding no container / a default-constructed container
Blank == [ex |-> FALSE, eng |-> FALSE, obj |-> "none", val |-> Indet]
Fresh == [ex |-> TRUE,  eng |-> FALSE, obj |-> "none", val |-> Indet]

\* what a call gives back: fail - it stopped in the failed assertion,
\* out - the returned value(s)
NoRet == [fail |-> FALSE, out |-> << >>]

\* the context an operation's statements run in: the slots, the effects so
\* far, the invocations of the functions passed in, and what is returned
Ctx(s) == [st |-> s, d |-> 0, n |-> 0, hz |-> {}, calls |-> << >>, ret |-> NoRet]

\* objects that live only during a call: the returned maybe, the temporary
\* of a chained call, the maybe a second call returns
RetObj   == 0
TmpObj   == 0 - 1
OtherObj == 0 - 2
Temps    == {RetObj, TmpObj, OtherObj}

\* ------------------------------------------------------- element lifetime
\* std::construct_at(pointer(), v): a new element begins its lifetime in p.
\* Constructing over an element that was never destroyed loses that element.
construct_at(c, p, v) ==
    [c EXCEPT !.st[p].obj = "live", !.st[p].val = v, !.n = @ + 1,
              !.hz = IF c.st[p].obj \in {"live", "moved"} THEN @ \cup {"leak"} ELSE @]

\* std::destroy_at(pointer()): the element's destructor runs.
destroy_at(c, p) ==
    [c EXCEPT !.st[p].obj = "none", !.st[p].val = Indet, !.d = @ + 1,
              !.hz = IF c.st[p].obj \in {"live", "moved"} THEN @
                     ELSE @ \cup {"bad_destroy"}]

\* value() = v: the element's copy assignment. On bytes that hold no element
\* this is undefined: the result is v or an indeterminate value (ub).
assign_value(c, p, v, ub) ==
    IF c.st[p].obj \in {"live", "moved"}
    THEN [c EXCEPT !.st[p].obj = "live", !.st[p].val = v]
    ELSE [c EXCEPT !.st[p].obj = "assigned",
                   !.st[p].val = IF ub THEN Indet ELSE v,
                   !.hz = @ \cup {"raw_assign"}]

\* std::move(rhs.value()) consumed by the element's move constructor
move_out(c, p) ==
    [c EXCEPT !.st[p].obj = IF @ = "live" THEN "moved" ELSE @]

\* std::swap(value(), other.value()) of a non-trivial element:
\* T tmp(std::move(a)); a = std::move(b); b = std::move(tmp);
\* both elements are moved from and assigned to
swap_values(c, a, b, ub) ==
    LET tmp == c.st[a].val
        c1  == move_out(c, a)
        c2  == assign_value(c1, a, c1.st[b].val, ub)
        c3  == move_out(c2, b)
    IN  assign_value(c3, b, tmp, ub)

set_engaged(c, p, e) == [c EXCEPT !.st[p].eng = e]

\* storage::engaged()
engaged(c, p) == c.st[p].eng

\* the container p comes into / goes out of existence
begin_container(c, p) == [c EXCEPT !.st[p] = Fresh]
end_container(c, p) ==
    [c EXCEPT !.st[p] = Blank,
              !.hz = IF c.st[p].obj \in {"live", "moved"} THEN @ \cup {"leak"} ELSE @]

\* ------------------------------------- src/libreglisse/maybe.hpp, storage<T>
\* storage(const value_type&) / storage(value_type&&)
storage_value_ctor(c, p, v) ==
    construct_at(set_engaged(begin_container(c, p), p, TRUE), p, v)

\* storage(const storage& rhs)
storage_copy_ctor(c, p, rhs) ==
    LET c1 == set_engaged(begin_container(c, p), p, engaged(c, rhs))
    IN  IF engaged(c1, p) THEN construct_at(c1, p, c1.st[rhs].val) ELSE c1

\* storage(storage&& rhs), the variant that forgets to disengage rhs
storage_move_ctor_keeps_rhs(c, p, rhs) ==
    LET c1 == set_engaged(begin_container(c, p), p, engaged(c, rhs))
    IN  IF engaged(c1, p)
        THEN move_out(construct_at(c1, p, c1.st[rhs].val), rhs)
        ELSE c1

\* storage(storage&& rhs)
storage_move_ctor(c, p, rhs) ==
    LET c1 == set_engaged(begin_container(c, p), p, engaged(c, rhs))
    IN  IF engaged(c1, p)
        THEN set_engaged(move_out(construct_at(c1, p, c1.st[rhs].val), rhs), rhs, FALSE)
        ELSE c1

\* ~storage()
storage_dtor(c, p) ==
    LET c1 == IF engaged(c, p) THEN set_engaged(destroy_at(c, p), p, FALSE) ELSE c
    IN  end_container(c1, p)

\* operator=(const storage& rhs), the variant that does not destroy the
\* element the destination holds
storage_copy_assign_keeps_old(c, p, rhs) ==
    IF p # rhs
    THEN LET c2 == set_engaged(c, p, engaged(c, rhs))
         IN  IF engaged(c2, p) THEN construct_at(c2, p, c2.st[rhs].val) ELSE c2
    ELSE c

\* operator=(const storage& rhs), the variant that disengages rhs as a move does
storage_copy_assign_steals(c, p, rhs) ==
    IF p # rhs
    THEN LET c1 == IF engaged(c, p) THEN destroy_at(c, p) ELSE c
             c2 == set_engaged(set_engaged(c1, p, engaged(c1, rhs)), rhs, FALSE)
         IN  IF engaged(c2, p) THEN construct_at(c2, p, c2.st[rhs].val) ELSE c2
    ELSE c

\* operator=(const storage& rhs)
storage_copy_assign(c, p, rhs) ==
    IF p # rhs
    THEN LET c1 == IF engaged(c, p) THEN destroy_at(c, p) ELSE c
             c2 == set_engaged(c1, p, engaged(c1, rhs))
         IN  IF engaged(c2, p) THEN construct_at(c2, p, c2.st[rhs].val) ELSE c2
    ELSE c

\* operator=(storage&& rhs), the variant that skips the construction
storage_move_assign_drops(c, p, rhs) ==
    IF p # rhs
    THEN LET c1 == IF engaged(c, p) THEN destroy_at(c, p) ELSE c
         IN  set_engaged(set_engaged(c1, p, engaged(c1, rhs)), rhs, FALSE)
    ELSE c

\* operator=(storage&& rhs)
storage_move_assign(c, p, rhs) ==
    IF p # rhs
    THEN LET c1 == IF engaged(c, p) THEN destroy_at(c, p) ELSE c
             c2 == set_engaged(set_engaged(c1, p, engaged(c1, rhs)), rhs, FALSE)
         IN  IF engaged(c2, p)
             THEN move_out(construct_at(c2, p, c2.st[rhs].val), rhs)
             ELSE c2
    ELSE c

\* storage::swap(storage& other)
storage_swap(c, p, other, ub) ==
    IF engaged(c, p) /\ engaged(c, other)
    THEN swap_values(c, p, other, ub)
    ELSE IF engaged(c, p) /\ ~engaged(c, other)
    THEN LET c1 == set_engaged(c, other, TRUE)
             c2 == assign_value(c1, other, c1.st[p].val, ub)
             c3 == set_engaged(c2, p, FALSE)
         IN  destroy_at(c3, p)
    ELSE IF ~engaged(c, p) /\ engaged(c, other)
    THEN LET c1 == set_engaged(c, p, TRUE)
             c2 == assign_value(c1, p, c1.st[other].val, ub)
             c3 == set_engaged(c2, other, FALSE)
         IN  destroy_at(c3, other)
    ELSE c

\* storage::reset(), the variant that leaves the flag set
storage_reset_keeps_flag(c, p) ==
    IF engaged(c, p) THEN destroy_at(c, p) ELSE c

\* storage::reset()
storage_reset(c, p) ==
    IF engaged(c, p) THEN set_engaged(destroy_at(c, p), p, FALSE) ELSE c

\* --------------------- src/libreglisse/maybe.hpp, storage<T> requires trivial<T>
\* storage(const value_type&) / storage(value_type&&)
trivial_value_ctor(c, p, v) ==
    [c EXCEPT !.st[p] = [ex |-> TRUE, eng |-> TRUE, obj |-> "none", val |-> v]]

\* the implicitly declared copy/move constructor and copy/move assignment:
\* a member-wise copy of m_bytes and m_is_engaged; rhs is left as it was
trivial_copy(c, p, rhs) ==
    [c EXCEPT !.st[p] = [c.st[rhs] EXCEPT !.ex = TRUE]]

\* storage<trivial>::swap(storage& other)
trivial_swap(c, p, other) ==
    IF engaged(c, p) /\ engaged(c, other)
    THEN [c EXCEPT !.st[p].val = c.st[other].val,
                   !.st[other].val = c.st[p].val]
    ELSE IF engaged(c, p) /\ ~engaged(c, other)
    THEN LET c1 == set_engaged(c, other, TRUE)
             c2 == [c1 EXCEPT !.st[other].val = c1.st[p].val]
         IN  set_engaged(c2, p, FALSE)
    ELSE IF ~engaged(c, p) /\ engaged(c, other)
    THEN LET c1 == set_engaged(c, p, TRUE)
             c2 == [c1 EXCEPT !.st[p].val = c1.st[other].val]
         IN  set_engaged(c2, other, FALSE)
    ELSE c

\* storage<trivial>::reset(): destroy_at of a trivial element does nothing
trivial_reset(c, p) ==
    IF engaged(c, p) THEN set_engaged(c, p, FALSE) ELSE c

\* the implicit destructor of storage<trivial>
trivial_dtor(c, p) == [c EXCEPT !.st[p] = Blank]

\* ------------------------------------------ src/monads/maybe.hpp, storage
\* storage(const value_type&) / storage(value_type&&)
monads_storage_value_ctor(c, p, v) ==
    construct_at(set_engaged(begin_container(c, p), p, TRUE), p, v)

\* storage(const storage& rhs)
monads_storage_copy_ctor(c, p, rhs) ==
    LET c1 == set_engaged(begin_container(c, p), p, engaged(c, rhs))
    IN  IF engaged(c1, p) THEN construct_at(c1, p, c1.st[rhs].val) ELSE c1

\* ~storage()
monads_storage_dtor(c, p) ==
    LET c1 == IF engaged(c, p) THEN set_engaged(destroy_at(c, p), p, FALSE) ELSE c
    IN  end_container(c1, p)

\* operator=(const storage& rhs)
monads_storage_copy_assign(c, p, rhs) ==
    IF p # rhs
    THEN LET c1 == IF engaged(c, p) THEN destroy_at(c, p) ELSE c
             c2 == set_engaged(c1, p, engaged(c1, rhs))
         IN  IF engaged(c2, p) THEN construct_at(c2, p, c2.st[rhs].val) ELSE c2
    ELSE c

\* operator=(storage&& rhs)
monads_storage_move_assign(c, p, rhs) ==
    IF p # rhs
    THEN LET c1 == IF engaged(c, p) THEN destroy_at(c, p) ELSE c
             c2 == set_engaged(set_engaged(c1, p, engaged(c1, rhs)), rhs, FALSE)
         IN  IF engaged(c2, p)
             THEN move_out(construct_at(c2, p, c2.st[rhs].val), rhs)
             ELSE c2
    ELSE c

\* std::swap(m_is_engaged, other.m_is_engaged)
swap_engaged(c, a, b) ==
    [c EXCEPT !.st[a].eng = c.st[b].eng, !.st[b].eng = c.st[a].eng]

\* storage::swap(storage& other): three consecutive if statements, each
\* testing the flags as the one before left them
monads_storage_swap(c, p, other, ub) ==
    LET c1 == IF engaged(c, p) /\ engaged(c, other)
              THEN swap_values(c, p, other, ub) ELSE c
        c2 == IF engaged(c1, p) /\ ~engaged(c1, other)
              THEN LET d1 == swap_engaged(c1, p, other)
                       d2 == assign_value(d1, other, d1.st[p].val, ub)
                   IN  destroy_at(d2, p)
              ELSE c1
    IN  IF ~engaged(c2, p) /\ engaged(c2, other)
        THEN LET d1 == swap_engaged(c2, p, other)
                 d2 == assign_value(d1, p, d1.st[other].val, ub)
             IN  destroy_at(d2, other)
        ELSE c2

\* storage<trivial>::swap(storage& other) of src/monads/maybe.hpp
monads_trivial_swap(c, p, other) ==
    LET c1 == IF engaged(c, p) /\ engaged(c, other)
              THEN [c EXCEPT !.st[p].val = c.st[other].val,
                             !.st[other].val = c.st[p].val]
              ELSE c
        c2 == IF engaged(c1, p) /\ ~engaged(c1, other)
              THEN LET d1 == swap_engaged(c1, p, other)
                   IN  [d1 EXCEPT !.st[other].val = d1.st[p].val]
              ELSE c1
    IN  IF ~engaged(c2, p) /\ engaged(c2, other)
        THEN LET d1 == swap_engaged(c2, p, other)
             IN  [d1 EXCEPT !.st[p].val = d1.st[other].val]
        ELSE c2

\* maybe::reset() of src/monads/maybe.hpp: destroys, and leaves the flag
monads_maybe_reset(c, p) ==
    IF engaged(c, p) THEN destroy_at(c, p) ELSE c

\* the same maybe::reset() over storage<trivial>: destroy_at of a trivial
\* element does nothing, and the flag is left
monads_maybe_reset_trivial(c, p) == c

\* ------------------------------------ src/include/monads/maybe.hpp, maybe
\* maybe(const value_type&) / maybe(value_type&&): the element is
\* constructed, m_is_engaged keeps its initializer (false)
include_value_ctor(c, p, v) ==
    construct_at(begin_container(c, p), p, v)

\* maybe::reset()
include_reset(c, p) ==
    IF engaged(c, p) THEN destroy_at(c, p) ELSE c

\* ~maybe()
include_dtor(c, p) ==
    end_container(IF engaged(c, p) THEN destroy_at(c, p) ELSE c, p)

\* ------------------------------------------------------------ class maybe
\* maybe::has_value()
has_value(i, s) == st[i][s].eng

\* maybe::value() on an engaged maybe
value(i, s) == st[i][s].val

\* maybe(const value_type&) / maybe(value_type&&)
maybe_value_ctor(i, c, p, v) ==
    CASE i = "LG" -> storage_value_ctor(c, p, v)
      [] i = "MG" -> monads_storage_value_ctor(c, p, v)
      [] i = "IM" -> include_value_ctor(c, p, v)
      [] OTHER    -> trivial_value_ctor(c, p, v)

\* make_maybe(value): return {std::forward<Any>(value)};
make_maybe(i, c, p, v) == maybe_value_ctor(i, c, p, v)

\* maybe(const maybe&), implicitly declared: copies m_storage. In
\* src/include/monads/maybe.hpp the defaulted constructor, selected for a
\* trivially copyable element, copies m_bytes and m_is_engaged (the
\* user-provided one calls rhs.engaged(), which maybe does not have).
maybe_copy_ctor(i, c, p, rhs) ==
    CASE i = "LG" -> storage_copy_ctor(c, p, rhs)
      [] i = "MG" -> monads_storage_copy_ctor(c, p, rhs)
      [] i \in {"LT", "MT", "IM"} -> trivial_copy(c, p, rhs)

\* maybe(maybe&&), implicitly declared: moves m_storage. (The generic
\* storage(storage&&) of src/monads/maybe.hpp is ill-formed: no case for it.
\* In src/include/monads/maybe.hpp the defaulted constructor, selected for a
\* trivially copyable element, copies m_bytes and m_is_engaged.)
maybe_move_ctor(i, c, p, rhs) ==
    CASE i = "LG"                 -> storage_move_ctor(c, p, rhs)
      [] i \in {"LT", "MT", "IM"} -> trivial_copy(c, p, rhs)

\* operator=(const maybe&), implicitly declared
maybe_copy_assign(i, c, p, rhs) ==
    CASE i = "LG" -> storage_copy_assign(c, p, rhs)
      [] i = "MG" -> monads_storage_copy_assign(c, p, rhs)
      [] i \in {"LT", "MT"} -> trivial_copy(c, p, rhs)

\* operator=(maybe&&), implicitly declared
maybe_move_assign(i, c, p, rhs) ==
    CASE i = "LG" -> storage_move_assign(c, p, rhs)
      [] i = "MG" -> monads_storage_move_assign(c, p, rhs)
      [] i \in {"LT", "MT"} -> trivial_copy(c, p, rhs)

\* maybe::swap(maybe& other)
maybe_swap(i, c, p, other, ub) ==
    CASE i = "LG" -> storage_swap(c, p, other, ub)
      [] i = "LT" -> trivial_swap(c, p, other)
      [] i = "MG" -> monads_storage_swap(c, p, other, ub)
      [] i = "MT" -> monads_trivial_swap(c, p, other)

\* maybe::reset()
maybe_reset(i, c, p) ==
    CASE i = "LG" -> storage_reset(c, p)
      [] i = "LT" -> trivial_reset(c, p)
      [] i = "MG" -> monads_maybe_reset(c, p)
      [] i = "IM" -> include_reset(c, p)
      [] OTHER    -> monads_maybe_reset_trivial(c, p)

\* take, the variant that leaves out the reset()
maybe_take_no_reset(i, c, ret, this) == maybe_move_ctor(i, c, ret, this)

\* maybe::take(): maybe ret = std::move(*this); reset(); return ret;
\* (ret is the returned object: the return is elided)
maybe_take(i, c, ret, this) ==
    maybe_reset(i, maybe_move_ctor(i, c, ret, this), this)

\* ~maybe(), implicitly declared: destroys m_storage
maybe_dtor(i, c, p) ==
    CASE i = "LG" -> storage_dtor(c, p)
      [] i = "MG" -> monads_storage_dtor(c, p)
      [] i = "IM" -> include_dtor(c, p)
      [] OTHER    -> trivial_dtor(c, p)

\* ------------------------------------------------------ accessors of maybe
\* the ref-qualified overloads of a member: &, const&, &&, const&&
Quals == {"lref", "cref", "rref", "crref"}

\* the slots together with the objects that live during a call
with_temps(c) ==
    [c EXCEPT !.st = [p \in Slots \cup Temps |->
                        IF p \in Slots THEN c.st[p] ELSE Blank]]

\* return x;
returns(c, x) == [c EXCEPT !.ret = [fail |-> FALSE, out |-> x]]

\* what has_value() and value() show of the object r of context c
view_of(c, r) == IF engaged(c, r) THEN Some(c.st[r].val) ELSE None

\* assert(cond) compiled with NDEBUG: no check is made
cassert_off(c, cond) == c

\* assert(cond) of <cassert> (NDEBUG is not defined anywhere in the
\* sources): when cond is false the program stops there, nothing is returned
cassert(c, cond) ==
    IF cond THEN c ELSE [c EXCEPT !.ret = [fail |-> TRUE, out |-> << >>]]

\* maybe::has_value() const: return m_storage.engaged();
maybe_has_value(c, p) == returns(c, << engaged(c, p) >>)

\* storage::value(): return *pointer(); (the four overloads differ in the
\* reference they return, std::move being a cast)
storage_value(c, p, q) == returns(c, << c.st[p].val >>)

\* maybe::value(): assert(has_value()); return m_storage.value();
\* (the same body in all three files and all four overloads)
maybe_value(c, p, q) ==
    LET c1 == cassert(c, engaged(c, p))
    IN  IF c1.ret.fail THEN c1 ELSE storage_value(c1, p, q)

\* maybe::operator->(): assert(has_value()); return m_storage.pointer();
\* out is what the returned pointer points to
maybe_arrow(c, p) ==
    LET c1 == cassert(c, engaged(c, p))
    IN  IF c1.ret.fail THEN c1 ELSE returns(c1, << c1.st[p].val >>)

\* maybe::operator*() of src/libreglisse/maybe.hpp and src/monads/maybe.hpp:
\* return m_storage.value(); without an assertion
maybe_deref(c, p, q) == storage_value(c, p, q)

\* maybe::operator*() const& / && / const&& of
\* src/include/monads/maybe.hpp: return value(); The & overload is
\* { value(); }, a constexpr function without a return statement: a call of
\* it is not compiled, and it has no outcome here.
include_deref(c, p, q) == maybe_value(c, p, q)

\* the default values handed to value_or: of a type convertible to
\* value_type, here a number d/2 with one binary digit after the point
Defaults == 2 .. (2 * MaxVal + 1)

\* static_cast<value_type>(default_value): the conversion to the (integer)
\* element type drops the fraction
static_cast_value(d) == d \div 2

\* value_or that asks value() whatever has_value() says
maybe_value_or_unchecked(c, p, q, d) ==
    LET c1 == maybe_value(c, p, q)
    IN  IF q = "rref" /\ ~c1.ret.fail THEN move_out(c1, p) ELSE c1

\* maybe::value_or(default_value) const& / &&:
\* has_value() ? value() : static_cast<value_type>(default_value)
\* (the && overload moves the element into the returned value)
maybe_value_or(c, p, q, d) ==
    IF engaged(c, p)
    THEN LET c1 == maybe_value(c, p, q)
         IN  IF q = "rref" THEN move_out(c1, p) ELSE c1
    ELSE returns(c, << static_cast_value(d) >>)

\* ---------------------------------------------------- combinators of maybe
\* the functions passed to the combinators: from the element type to the
\* element type, and to a maybe of it
Maybes   == {None} \cup {Some(v) : v \in Values}
Funs     == [Values -> Values]
MaybeFuns == [Values -> Maybes]

\* compose(g, f): the function x -> g(f(x))
compose(g, f) == [x \in Values |-> g[f[x]]]

\* what f gives for v (for an indeterminate value, an indeterminate value)
apply(f, v) == IF v \in DOMAIN f THEN f[v] ELSE Indet

\* std::invoke(fun, arg): the invocation is logged with what it returned
invoke(c, name, arg, res) ==
    [c EXCEPT !.calls = Append(@, [fn |-> name, arg |-> arg, res |-> res])]

\* the maybe a passed function returns, m telling what it holds
fn_result(i, c, r, m) ==
    IF m = None THEN begin_container(c, r) ELSE maybe_value_ctor(i, c, r, m[1])

\* map, the variant that invokes fun a second time to build the result
maybe_map_invokes_twice(i, c, r, p, q, f) ==
    IF engaged(c, p)
    THEN LET c1 == maybe_value(c, p, q)
             v  == c1.ret.out[1]
             c2 == invoke(c1, "fun", << v >>, << apply(f, v) >>)
             c3 == invoke(c2, "fun", << v >>, << apply(f, v) >>)
         IN  maybe_value_ctor(i, c3, r, apply(f, v))
    ELSE begin_container(c, r)

\* map, the variant whose && overload gives back none
maybe_map_drops_rvalue(i, c, r, p, q, f) ==
    IF engaged(c, p) /\ q # "rref"
    THEN LET c1 == maybe_value(c, p, q)
             v  == c1.ret.out[1]
             c2 == invoke(c1, "fun", << v >>, << apply(f, v) >>)
         IN  maybe_value_ctor(i, c2, r, apply(f, v))
    ELSE begin_container(c, r)

\* maybe::map(fun) of src/libreglisse/maybe.hpp:
\* if (has_value()) return {std::invoke(fun, value())}; else return none;
\* (the && overload hands std::move(value()) to fun: the element is moved from)
maybe_map(i, c, r, p, q, f) ==
    IF engaged(c, p)
    THEN LET c1 == maybe_value(c, p, q)
             v  == c1.ret.out[1]
             c2 == invoke(IF q = "rref" THEN move_out(c1, p) ELSE c1,
                          "fun", << v >>, << apply(f, v) >>)
         IN  maybe_value_ctor(i, c2, r, apply(f, v))
    ELSE begin_container(c, r)

\* maybe::map(fun) of src/monads/maybe.hpp (src/include/monads/maybe.hpp has
\* the same body): !has_value() ? maybe<result_type>{}
\*                              : maybe<result_type>{std::invoke(fun, value())}
monads_maybe_map(i, c, r, p, q, f) ==
    IF ~engaged(c, p)
    THEN begin_container(c, r)
    ELSE LET c1 == maybe_value(c, p, q)
             v  == c1.ret.out[1]
             c2 == invoke(IF q = "rref" THEN move_out(c1, p) ELSE c1,
                          "fun", << v >>, << apply(f, v) >>)
         IN  maybe_value_ctor(i, c2, r, apply(f, v))

\* map of the implementation i
map(i, c, r, p, q, f) ==
    IF i \in {"LG", "LT"}
    THEN maybe_map(i, c, r, p, q, f)
    ELSE monads_maybe_map(i, c, r, p, q, f)

\* map_or, the variant that calls fun on whatever the bytes hold
maybe_map_or_unchecked(c, p, q, f, other) ==
    LET v  == c.st[p].val
        c2 == invoke(c, "fun", << v >>, << apply(f, v) >>)
    IN  returns(c2, << apply(f, v) >>)

\* maybe::map_or(fun, other):
\* if (has_value()) return std::invoke(fun, value()); else return other;
maybe_map_or(c, p, q, f, other) ==
    IF engaged(c, p)
    THEN LET c1 == maybe_value(c, p, q)
             v  == c1.ret.out[1]
             c2 == invoke(IF q = "rref" THEN move_out(c1, p) ELSE c1,
                          "fun", << v >>, << apply(f, v) >>)
         IN  returns(c2, << apply(f, v) >>)
    ELSE returns(c, << other >>)

\* map_or_else, the variant that evaluates the fallback before it looks
maybe_map_or_else_calls_both(c, p, q, f, dv) ==
    LET c0 == invoke(c, "def", << >>, << dv >>)
    IN  IF engaged(c0, p)
        THEN LET c1 == maybe_value(c0, p, q)
                 v  == c1.ret.out[1]
                 c2 == invoke(IF q = "rref" THEN move_out(c1, p) ELSE c1,
                              "fun", << v >>, << apply(f, v) >>)
             IN  returns(c2, << apply(f, v) >>)
        ELSE returns(c0, << dv >>)

\* maybe::map_or_else(fun, def): if (has_value())
\* return std::invoke(fun, value()); else return std::invoke(def);
\* (def gives the value dv)
maybe_map_or_else(c, p, q, f, dv) ==
    IF engaged(c, p)
    THEN LET c1 == maybe_value(c, p, q)
             v  == c1.ret.out[1]
             c2 == invoke(IF q = "rref" THEN move_out(c1, p) ELSE c1,
                          "fun", << v >>, << apply(f, v) >>)
         IN  returns(c2, << apply(f, v) >>)
    ELSE returns(invoke(c, "def", << >>, << dv >>), << dv >>)

\* and_then, the variant that wraps what fun returns in a maybe of its own
maybe_and_then_nests(i, c, r, p, q, fn) ==
    IF engaged(c, p)
    THEN LET c1 == maybe_value(c, p, q)
             v  == c1.ret.out[1]
             m  == IF v \in DOMAIN fn THEN fn[v] ELSE None
             c2 == invoke(IF q = "rref" THEN move_out(c1, p) ELSE c1,
                          "fun", << v >>, m)
         IN  maybe_value_ctor(i, c2, r, IF m = None THEN Indet ELSE m[1])
    ELSE begin_container(c, r)

\* maybe::and_then(fun):
\* if (has_value()) return std::invoke(fun, value()); else return none;
maybe_and_then(i, c, r, p, q, fn) ==
    IF engaged(c, p)
    THEN LET c1 == maybe_value(c, p, q)
             v  == c1.ret.out[1]
             m  == IF v \in DOMAIN fn THEN fn[v] ELSE None
             c2 == invoke(IF q = "rref" THEN move_out(c1, p) ELSE c1,
                          "fun", << v >>, m)
         IN  fn_result(i, c2, r, m)
    ELSE begin_container(c, r)

\* or_else, the variant that asks fun first
maybe_or_else_eager(i, c, r, p, q, m) ==
    LET c1 == invoke(c, "fun", << >>, m)
    IN  IF engaged(c1, p)
        THEN IF q = "rref" THEN maybe_move_ctor(i, c1, r, p)
                           ELSE maybe_copy_ctor(i, c1, r, p)
        ELSE fn_result(i, c1, r, m)

\* or_else, the variant whose every overload moves *this into the result
maybe_or_else_moves(i, c, r, p, q, m) ==
    IF engaged(c, p)
    THEN maybe_move_ctor(i, c, r, p)
    ELSE fn_result(i, invoke(c, "fun", << >>, m), r, m)

\* maybe::or_else(fun): if (has_value()) return *this; (std::move(*this) in
\* the && and const&& overloads, which for const&& is a copy) else
\* return std::invoke(fun);  (fun gives a maybe showing m)
maybe_or_else(i, c, r, p, q, m) ==
    IF engaged(c, p)
    THEN IF q = "rref" THEN maybe_move_ctor(i, c, r, p)
                       ELSE maybe_copy_ctor(i, c, r, p)
    ELSE fn_result(i, invoke(c, "fun", << >>, m), r, m)

\* ---------------------------------------------------- comparisons of maybe
\* x <=> y of the element type (integers): a std::strong_ordering
three_way(x, y) == IF x < y THEN "less" ELSE IF x > y THEN "greater" ELSE "equal"

\* a bool operand of <=> or of a conversion to the element type:
\* false is 0, true is 1
bool_as_value(b) == IF b THEN 1 ELSE 0

\* the values of the two operands after value() const& on each, or the
\* failed assertion of the first value() that fails
both_values(c, lhs, rhs) ==
    LET c1 == maybe_value(c, lhs, "cref")
    IN  IF c1.ret.fail THEN c1
        ELSE LET c2 == maybe_value(c1, rhs, "cref")
             IN  IF c2.ret.fail THEN c2
                 ELSE returns(c2, << c1.ret.out[1], c2.ret.out[1] >>)

\* operator==, the variant that compares the flags only
maybe_eq_flags_only(c, lhs, rhs, ub) ==
    returns(c, << engaged(c, lhs) = engaged(c, rhs) >>)

\* operator==(const maybe&, const maybe&), the same body in the three files:
\* if (lhs.has_value() != rhs.has_value()) return false;
\* else if (!lhs.has_value()) return true;
\* else return lhs.value() == rhs.value();
\* Comparing an element whose value is indeterminate (it was destroyed, or
\* assigned into bytes holding no element) is undefined: the result is ub.
maybe_eq(c, lhs, rhs, ub) ==
    IF engaged(c, lhs) # engaged(c, rhs) THEN returns(c, << FALSE >>)
    ELSE IF ~engaged(c, lhs) THEN returns(c, << TRUE >>)
    ELSE LET c1 == both_values(c, lhs, rhs)
         IN  IF c1.ret.fail THEN c1
             ELSE IF Indet \in {c1.ret.out[1], c1.ret.out[2]}
             THEN returns(c1, << ub >>)
             ELSE returns(c1, << c1.ret.out[1] = c1.ret.out[2] >>)

\* operator==(const maybe& m, none_t): return !m.has_value();
maybe_eq_none(c, m) == returns(c, << ~engaged(c, m) >>)

\* operator==(const maybe& m, const Other& value):
\* return m.has_value() ? m.value() == value : false;
\* (ub: the result of comparing an indeterminate element)
maybe_eq_value(c, m, v, ub) ==
    IF engaged(c, m)
    THEN LET c1 == maybe_value(c, m, "cref")
         IN  IF c1.ret.fail THEN c1
             ELSE IF c1.ret.out[1] = Indet THEN returns(c1, << ub >>)
             ELSE returns(c1, << c1.ret.out[1] = v >>)
    ELSE returns(c, << FALSE >>)

\* operator<=>, the variant that orders an empty maybe after the engaged ones
maybe_three_way_empty_last(c, lhs, rhs, ub) ==
    IF engaged(c, lhs) /\ engaged(c, rhs)
    THEN LET c1 == both_values(c, lhs, rhs)
         IN  IF c1.ret.fail THEN c1
             ELSE returns(c1, << three_way(c1.ret.out[1], c1.ret.out[2]) >>)
    ELSE returns(c, << three_way(bool_as_value(engaged(c, rhs)),
                                 bool_as_value(engaged(c, lhs))) >>)

\* operator<=>(const maybe&, const maybe&) of src/libreglisse/maybe.hpp:
\* if (lhs.has_value() && rhs.has_value()) return lhs.value() <=> rhs.value();
\* else return lhs.has_value() <=> rhs.has_value();
\* (ub: the result of comparing an indeterminate element)
maybe_three_way(c, lhs, rhs, ub) ==
    IF engaged(c, lhs) /\ engaged(c, rhs)
    THEN LET c1 == both_values(c, lhs, rhs)
         IN  IF c1.ret.fail THEN c1
             ELSE IF Indet \in {c1.ret.out[1], c1.ret.out[2]}
             THEN returns(c1, << ub >>)
             ELSE returns(c1, << three_way(c1.ret.out[1], c1.ret.out[2]) >>)
    ELSE returns(c, << three_way(bool_as_value(engaged(c, lhs)),
                                 bool_as_value(engaged(c, rhs))) >>)

\* operator<=>(const maybe&, const maybe&) of src/monads/maybe.hpp and
\* src/include/monads/maybe.hpp:
\* if (lhs.has_value() && rhs.has_value())
\*    return lhs.value() <=> rhs.has_value();
\* return lhs.has_value() <=> rhs.has_value();
\* (the bool is converted to the element type; with an element type that has
\* no such conversion the function cannot be instantiated; ub: the result
\* of comparing an indeterminate element)
monads_maybe_three_way(c, lhs, rhs, ub) ==
    IF engaged(c, lhs) /\ engaged(c, rhs)
    THEN LET c1 == maybe_value(c, lhs, "cref")
         IN  IF c1.ret.fail THEN c1
             ELSE IF c1.ret.out[1] = Indet THEN returns(c1, << ub >>)
             ELSE returns(c1, << three_way(c1.ret.out[1],
                                           bool_as_value(engaged(c1, rhs))) >>)
    ELSE returns(c, << three_way(bool_as_value(engaged(c, lhs)),
                                 bool_as_value(engaged(c, rhs))) >>)

\* operator<=>(const maybe& m, none_t): return m.has_value() <=> false;
maybe_three_way_none(c, m) ==
    returns(c, << three_way(bool_as_value(engaged(c, m)), bool_as_value(FALSE)) >>)

\* operator<=>(const maybe& m, const Other& value):
\* return m.has_value() ? m.value() <=> value : std::strong_ordering::less;
\* (ub: the result of comparing an indeterminate element)
maybe_three_way_value(c, m, v, ub) ==
    IF engaged(c, m)
    THEN LET c1 == maybe_value(c, m, "cref")
         IN  IF c1.ret.fail THEN c1
             ELSE IF c1.ret.out[1] = Indet THEN returns(c1, << ub >>)
             ELSE returns(c1, << three_way(c1.ret.out[1], v) >>)
    ELSE returns(c, << "less" >>)

\* ------------------------------------------ src/libreglisse/either.hpp
\* the sides of an either
Sides == {"left", "right"}

\* a member of the union that holds no element
NoElem == [obj |-> "none", val |-> Indet]

\* a slot holding no either
NoEither == [ex |-> FALSE, is_left |-> TRUE, left |-> NoElem, right |-> NoElem]

\* the member m_left or m_right of the either p
member(c, p, side) == IF side = "left" THEN c.st[p].left ELSE c.st[p].right

with_member(c, p, side, m) ==
    IF side = "left" THEN [c EXCEPT !.st[p].left = m]
                     ELSE [c EXCEPT !.st[p].right = m]

\* std::construct_at(&m_left, v) / std::construct_at(&m_right, v): a new
\* element begins its lifetime in that member of the union; an element
\* still alive in either member is lost
either_construct_at(c, p, side, v) ==
    LET c1 == with_member(c, p, side, [obj |-> "live", val |-> v])
    IN  [c1 EXCEPT !.n = @ + 1,
                   !.hz = IF \E t \in Sides : member(c, p, t).obj \in {"live", "moved"}
                          THEN @ \cup {"leak"} ELSE @]

\* std::destroy_at(&m_left) / std::destroy_at(&m_right)
either_destroy_at(c, p, side) ==
    LET c1 == with_member(c, p, side, NoElem)
    IN  [c1 EXCEPT !.d = @ + 1,
                   !.hz = IF member(c, p, side).obj \in {"live", "moved"}
                          THEN @ ELSE @ \cup {"bad_destroy"}]

\* moving out, the variant that ends the lifetime of the element moved from
either_move_out_ends_lifetime(c, p, side) == with_member(c, p, side, NoElem)

\* std::move(m_left) / std::move(m_right) consumed by a move constructor
either_move_out(c, p, side) ==
    LET m == member(c, p, side)
    IN  with_member(c, p, side, [m EXCEPT !.obj = IF @ = "live" THEN "moved" ELSE @])

\* the either p comes into existence; m_is_left = true is its initializer
begin_either(c, p) == [c EXCEPT !.st[p] = [NoEither EXCEPT !.ex = TRUE]]

\* the either p goes out of existence
end_either(c, p) ==
    [c EXCEPT !.st[p] = NoEither,
              !.hz = IF \E t \in Sides : member(c, p, t).obj \in {"live", "moved"}
                     THEN @ \cup {"leak"} ELSE @]

\* either::is_left(): return m_is_left;
is_left(c, p) == c.st[p].is_left

\* either::is_right(): return !is_left();
is_right(c, p) == ~is_left(c, p)

\* the side m_is_left names
active(c, p) == IF is_left(c, p) THEN "left" ELSE "right"

\* detail::handle_invalid_left_either_access(check):
\* assert(check && "value stored on right side of either");
handle_invalid_left_either_access(c, check) == cassert(c, check)

\* detail::handle_invalid_right_either_access(check):
\* assert(check && "value stored on left side of either");
handle_invalid_right_either_access(c, check) == cassert(c, check)

\* borrow_left, the variant that does not check the side
borrow_left_unchecked(c, p) == returns(c, << c.st[p].left.val >>)

\* either::borrow_left() const& / &:
\* detail::handle_invalid_left_either_access(is_left()); return m_left;
borrow_left(c, p) ==
    LET c1 == handle_invalid_left_either_access(c, is_left(c, p))
    IN  IF c1.ret.fail THEN c1 ELSE returns(c1, << c1.st[p].left.val >>)

\* either::take_left() const&& / &&:
\* detail::handle_invalid_left_either_access(is_left()); return std::move(m_left);
\* q = "rref": the && overload, the returned element is move constructed
\* from m_left; q = "crref": the const&& overload, std::move of the const
\* member selects the copy constructor and m_left stays as it was
take_left(c, p, q) ==
    LET c1 == handle_invalid_left_either_access(c, is_left(c, p))
    IN  IF c1.ret.fail THEN c1
        ELSE returns(IF q = "rref" THEN either_move_out(c1, p, "left") ELSE c1,
                     << c1.st[p].left.val >>)

\* either::borrow_right() const& / &:
\* detail::handle_invalid_right_either_access(is_right()); return m_right;
borrow_right(c, p) ==
    LET c1 == handle_invalid_right_either_access(c, is_right(c, p))
    IN  IF c1.ret.fail THEN c1 ELSE returns(c1, << c1.st[p].right.val >>)

\* either::take_right() const&& / &&:
\* detail::handle_invalid_right_either_access(is_right()); return std::move(m_right);
\* (q as in take_left)
take_right(c, p, q) ==
    LET c1 == handle_invalid_right_either_access(c, is_right(c, p))
    IN  IF c1.ret.fail THEN c1
        ELSE returns(IF q = "rref" THEN either_move_out(c1, p, "right") ELSE c1,
                     << c1.st[p].right.val >>)

\* borrow_left() or borrow_right(), take_left() or take_right() by side
borrow(c, p, side) == IF side = "left" THEN borrow_left(c, p) ELSE borrow_right(c, p)
take(c, p, side, q) ==
    IF side = "left" THEN take_left(c, p, q) ELSE take_right(c, p, q)

\* either(left<left_type>&& left_val):
\* std::construct_at(&m_left, std::move(left_val).take());
either_left_ctor(c, p, v) == either_construct_at(begin_either(c, p), p, "left", v)

\* either(right<right_type>&& right_val) : m_is_left(false)
\* { std::construct_at(&m_right, std::move(right_val).take()); }
either_right_ctor(c, p, v) ==
    either_construct_at([begin_either(c, p) EXCEPT !.st[p].is_left = FALSE],
                        p, "right", v)

\* an either constructed from left(v) or right(v)
either_side_ctor(c, p, side, v) ==
    IF side = "left" THEN either_left_ctor(c, p, v) ELSE either_right_ctor(c, p, v)

\* either(const either& other) : m_is_left(other.is_left())
\* { if (is_left()) std::construct_at(&m_left, other.borrow_left());
\*   else std::construct_at(&m_right, other.borrow_right()); }
either_copy_ctor(c, p, other) ==
    LET c1 == [begin_either(c, p) EXCEPT !.st[p].is_left = is_left(c, other)]
        c2 == borrow(c1, other, active(c1, p))
    IN  IF c2.ret.fail THEN c2
        ELSE either_construct_at(c2, p, active(c2, p), c2.ret.out[1])

\* either(either&& other) : m_is_left(other.is_left())
\* { if (is_left()) std::construct_at(&m_left, other.take_left());
\*   else std::construct_at(&m_right, other.take_right()); }
either_move_ctor(c, p, other) ==
    LET c1 == [begin_either(c, p) EXCEPT !.st[p].is_left = is_left(c, other)]
        c2 == take(c1, other, active(c1, p), "rref")
    IN  IF c2.ret.fail THEN c2
        ELSE either_construct_at(c2, p, active(c2, p), c2.ret.out[1])

\* ~either(): if (is_left()) std::destroy_at(&m_left);
\*            else std::destroy_at(&m_right);
either_dtor(c, p) == end_either(either_destroy_at(c, p, active(c, p)), p)

\* copy assignment, the variant that forgets m_is_left = rhs.m_is_left
either_copy_assign_keeps_side(c, p, rhs) ==
    IF p = rhs THEN c
    ELSE LET c1 == either_destroy_at(c, p, active(c, p))
             c3 == borrow(c1, rhs, active(c1, rhs))
         IN  IF c3.ret.fail THEN c3
             ELSE either_construct_at(c3, p, active(c3, p), c3.ret.out[1])

\* operator=(const either& rhs): if (this != &rhs) { destroy the active
\* member; m_is_left = rhs.m_is_left; construct the active member from
\* rhs.borrow_left() / rhs.borrow_right() } return *this;
either_copy_assign(c, p, rhs) ==
    IF p = rhs THEN c
    ELSE LET c1 == either_destroy_at(c, p, active(c, p))
             c2 == [c1 EXCEPT !.st[p].is_left = is_left(c1, rhs)]
             c3 == borrow(c2, rhs, active(c2, p))
         IN  IF c3.ret.fail THEN c3
             ELSE either_construct_at(c3, p, active(c3, p), c3.ret.out[1])

\* operator=(either&& rhs): as the copy assignment, constructing from
\* std::move(rhs).take_left() / std::move(rhs).take_right()
either_move_assign(c, p, rhs) ==
    IF p = rhs THEN c
    ELSE LET c1 == either_destroy_at(c, p, active(c, p))
             c2 == [c1 EXCEPT !.st[p].is_left = is_left(c1, rhs)]
             c3 == take(c2, rhs, active(c2, p), "rref")
         IN  IF c3.ret.fail THEN c3
             ELSE either_construct_at(c3, p, active(c3, p), c3.ret.out[1])

\* the slots together with the eithers that live during a call
either_with_temps(c) ==
    [c EXCEPT !.st = [p \in Slots \cup Temps |->
                        IF p \in Slots THEN c.st[p] ELSE NoEither]]

\* what is_left() and borrow_left() / borrow_right() show of the either r
either_view(c, r) ==
    IF c.st[r].ex THEN << active(c, r), member(c, r, active(c, r)).val >>
    ELSE << >>

\* the functions that give the same value whatever they are applied to
ConstFuns == {[x \in Values |-> y] : y \in Values}

\* the eithers a function passed to flat_transform_* can return, and the
\* functions from the element type to an either
Eithers  == Sides \X Values
EitherFuns == [Values -> Eithers]

\* a call the compiler finds no viable overload for: the program cannot be
\* built, nothing is invoked and nothing is returned
no_viable_overload(c) == [c EXCEPT !.hz = @ \cup {"ill_formed"}]

\* concept ensure_either = std::invocable<Fun, T> && requires {
\*    { std::invoke_result_t<Fun, T>::left_type };
\*    { std::invoke_result_t<Fun, T>::right_type }; };
\* the two requirements are expressions, and left_type and right_type of an
\* either are types: no function returning an either satisfies them
ensure_either == FALSE

\* concept ensure_right_either = ensure_either<Fun, RightType> &&
\*    std::same_as<invoke_result_t<Fun, RightType>::left_type, LeftType>
ensure_right_either == ensure_either /\ TRUE

\* either::transform_left(left_fun) &&:
\* if (is_left()) return left(std::invoke(left_fun, take_left()));
\* return right(take_right());
\* (the const&& overload cannot be instantiated: left(const left_type))
transform_left(c, r, p, f) ==
    IF is_left(c, p)
    THEN LET c1 == take_left(c, p, "rref")
             v  == c1.ret.out[1]
             c2 == invoke(c1, "fun", << v >>, << apply(f, v) >>)
         IN  IF c1.ret.fail THEN c1 ELSE either_left_ctor(c2, r, apply(f, v))
    ELSE LET c1 == take_right(c, p, "rref")
         IN  IF c1.ret.fail THEN c1 ELSE either_right_ctor(c1, r, c1.ret.out[1])

\* either::transform_right(right_fun) &&:
\* if (is_right()) return right(std::invoke(right_fun, take_right()));
\* return left(take_left());
transform_right(c, r, p, f) ==
    IF is_right(c, p)
    THEN LET c1 == take_right(c, p, "rref")
             v  == c1.ret.out[1]
             c2 == invoke(c1, "fun", << v >>, << apply(f, v) >>)
         IN  IF c1.ret.fail THEN c1 ELSE either_right_ctor(c2, r, apply(f, v))
    ELSE LET c1 == take_left(c, p, "rref")
         IN  IF c1.ret.fail THEN c1 ELSE either_left_ctor(c1, r, c1.ret.out[1])

\* either::flat_transform_left(left_fun) &&, constrained by
\* std::invocable<left_type> (the const&& overload by ensure_left_either):
\* if (is_left()) return std::invoke(left_fun, take_left());
\* return right(take_right());
flat_transform_left(c, r, p, fn) ==
    IF is_left(c, p)
    THEN LET c1 == take_left(c, p, "rref")
             v  == c1.ret.out[1]
             e  == IF v \in DOMAIN fn THEN fn[v] ELSE << "left", Indet >>
             c2 == invoke(c1, "fun", << v >>, e)
         IN  IF c1.ret.fail THEN c1 ELSE either_side_ctor(c2, r, e[1], e[2])
    ELSE LET c1 == take_right(c, p, "rref")
         IN  IF c1.ret.fail THEN c1 ELSE either_right_ctor(c1, r, c1.ret.out[1])

\* either::flat_transform_right(right_fun) const&& / &&, both constrained
\* by ensure_right_either:
\* if (is_right()) return std::invoke(right_fun, take_right());
\* return left(take_left());
flat_transform_right(c, r, p, fn) ==
    IF ~ensure_right_either THEN no_viable_overload(c)
    ELSE IF is_right(c, p)
    THEN LET c1 == take_right(c, p, "rref")
             v  == c1.ret.out[1]
             e  == IF v \in DOMAIN fn THEN fn[v] ELSE << "right", Indet >>
             c2 == invoke(c1, "fun", << v >>, e)
         IN  IF c1.ret.fail THEN c1 ELSE either_side_ctor(c2, r, e[1], e[2])
    ELSE LET c1 == take_left(c, p, "rref")
         IN  IF c1.ret.fail THEN c1 ELSE either_left_ctor(c1, r, c1.ret.out[1])

\* ---------------------------------------------------------------- actions
NoEff == [d |-> 0, n |-> 0, hz |-> {}, calls |-> << >>, ret |-> NoRet]

Exists(s) == \E i \in run : st[i][s].ex

\* One operation on containers a and b, arg the further arguments worth
\* keeping: every implementation that runs executes F, the abstract
\* optionals become absNew.
DoArg(op, a, b, arg, F(_, _), absNew) ==
    /\ st'   = [i \in Impl |->
                  IF i \in run
                  THEN LET r == F(i, Ctx(st[i]))
                       IN  [s \in Slots |-> r.st[s]]
                  ELSE st[i]]
    /\ eff'  = [i \in Impl |->
                  IF i \in run
                  THEN LET r == F(i, Ctx(st[i]))
                       IN  [d |-> r.d, n |-> r.n, hz |-> r.hz,
                            calls |-> r.calls, ret |-> r.ret]
                  ELSE NoEff]
    /\ last' = [op |-> op, a |-> a, b |-> b, arg |-> arg]
    /\ abs'  = absNew
    /\ eeff' = NoEff
    /\ UNCHANGED <<run, est>>

Do(op, a, b, F(_, _), absNew) == DoArg(op, a, b, << >>, F, absNew)

\* maybe<T> s;  /  maybe<T> s{none};
ConstructEmpty(s) ==
    /\ ~Exists(s)
    /\ Do("construct_empty", s, s, LAMBDA i, c : begin_container(c, s),
          [abs EXCEPT ![s] = None])

\* maybe<T> s{v};  /  auto s = make_maybe(v);
ConstructValue(s, v) ==
    /\ ~Exists(s)
    /\ \E mk \in BOOLEAN :
         Do("construct_value", s, s,
            LAMBDA i, c : IF mk THEN make_maybe(i, c, s, v)
                                ELSE maybe_value_ctor(i, c, s, v),
            [abs EXCEPT ![s] = Some(v)])

\* maybe<T> d{s};
CopyConstruct(d, s) ==
    /\ ~Exists(d) /\ Exists(s)
    /\ Do("copy_construct", d, s, LAMBDA i, c : maybe_copy_ctor(i, c, d, s),
          [abs EXCEPT ![d] = abs[s]])

\* maybe<T> d{std::move(s)};
MoveConstruct(d, s) ==
    /\ ~Exists(d) /\ Exists(s)
    /\ Do("move_construct", d, s, LAMBDA i, c : maybe_move_ctor(i, c, d, s),
          [abs EXCEPT ![d] = abs[s], ![s] = None])

\* d = s;
CopyAssign(d, s) ==
    /\ Exists(d) /\ Exists(s)
    /\ Do("copy_assign", d, s, LAMBDA i, c : maybe_copy_assign(i, c, d, s),
          [abs EXCEPT ![d] = abs[s]])

\* d = std::move(s);
MoveAssign(d, s) ==
    /\ Exists(d) /\ Exists(s)
    /\ Do("move_assign", d, s, LAMBDA i, c : maybe_move_assign(i, c, d, s),
          IF d = s THEN abs ELSE [abs EXCEPT ![d] = abs[s], ![s] = None])

\* s.reset();
Reset(s) ==
    /\ Exists(s)
    /\ Do("reset", s, s, LAMBDA i, c : maybe_reset(i, c, s),
          [abs EXCEPT ![s] = None])

\* a.swap(b); ub: what an undefined element assignment leaves behind
Swap(a, b) ==
    /\ Exists(a) /\ Exists(b)
    /\ \E ub \in BOOLEAN :
         Do("swap", a, b, LAMBDA i, c : maybe_swap(i, c, a, b, ub),
            [abs EXCEPT ![a] = abs[b], ![b] = abs[a]])

\* { maybe<T> t{m}; a.swap(t); }: a is swapped with a third container t,
\* constructed empty or from a value for the statement and destroyed after it
SwapWith(a, m) ==
    /\ Exists(a)
    /\ \E ub \in BOOLEAN :
         DoArg("swap_with", a, a, m,
               LAMBDA i, c :
                  LET c1 == fn_result(i, with_temps(c), TmpObj, m)
                      c2 == maybe_swap(i, c1, a, TmpObj, ub)
                  IN  maybe_dtor(i, c2, TmpObj),
               [abs EXCEPT ![a] = m])

\* { maybe<T> t{m}; a = std::move(t); }: a is move assigned from a third
\* container t, constructed for the statement and destroyed after it
AssignFrom(a, m) ==
    /\ Exists(a)
    /\ DoArg("assign_from", a, a, m,
             LAMBDA i, c :
                LET c1 == fn_result(i, with_temps(c), TmpObj, m)
                    c2 == maybe_move_assign(i, c1, a, TmpObj)
                IN  maybe_dtor(i, c2, TmpObj),
             [abs EXCEPT ![a] = m])

\* maybe<T> d = s.take();
Take(d, s) ==
    /\ ~Exists(d) /\ Exists(s)
    /\ Do("take", d, s, LAMBDA i, c : maybe_take(i, c, d, s),
          [abs EXCEPT ![d] = abs[s], ![s] = None])

\* container s goes out of scope
Destroy(s) ==
    /\ Exists(s)
    /\ Do("destroy", s, s, LAMBDA i, c : maybe_dtor(i, c, s),
          [abs EXCEPT ![s] = None])

\* the implementations that have the combinators beyond map
HasCombinators == run \subseteq {"LG", "LT"}

\* s.has_value();
HasValue(s) ==
    /\ Exists(s)
    /\ Do("has_value", s, s, LAMBDA i, c : maybe_has_value(c, s), abs)

\* s.value();  through the overload q
Value(s, q) ==
    /\ Exists(s)
    /\ Do("value", s, s, LAMBDA i, c : maybe_value(c, s, q), abs)

\* *s;  through the overload q
Deref(s, q) ==
    /\ Exists(s)
    /\ ~("IM" \in run /\ q = "lref")
    /\ Do("deref", s, s,
          LAMBDA i, c : IF i = "IM" THEN include_deref(c, s, q)
                                    ELSE maybe_deref(c, s, q),
          abs)

\* s.operator->();
Arrow(s) ==
    /\ Exists(s)
    /\ Do("arrow", s, s, LAMBDA i, c : maybe_arrow(c, s), abs)

\* s.value_or(d);  through the const& or the && overload
ValueOr(s, q, d) ==
    /\ Exists(s) /\ q \in {"cref", "rref"}
    /\ DoArg("value_or", s, s, << d >>,
             LAMBDA i, c : maybe_value_or(c, s, q, d), abs)

\* s.map(f);  ret.out is what the returned maybe shows
Map(s, q, f) ==
    /\ Exists(s)
    /\ Do("map", s, s,
          LAMBDA i, c : LET c1 == map(i, with_temps(c), RetObj, s, q, f)
                        IN  returns(c1, view_of(c1, RetObj)),
          abs)

\* s.map_or(f, other);
MapOr(s, q, f, other) ==
    /\ Exists(s) /\ HasCombinators
    /\ DoArg("map_or", s, s, << other >>,
             LAMBDA i, c : maybe_map_or(c, s, q, f, other), abs)

\* s.map_or_else(f, def);  def returning dv
MapOrElse(s, q, f, dv) ==
    /\ Exists(s) /\ HasCombinators
    /\ Do("map_or_else", s, s,
          LAMBDA i, c : maybe_map_or_else(c, s, q, f, dv), abs)

\* s.and_then(fn);
AndThen(s, q, fn) ==
    /\ Exists(s) /\ HasCombinators
    /\ Do("and_then", s, s,
          LAMBDA i, c : LET c1 == maybe_and_then(i, with_temps(c), RetObj, s, q, fn)
                        IN  returns(c1, view_of(c1, RetObj)),
          abs)

\* s.or_else(fn);  fn returning a maybe that shows m
OrElse(s, q, m) ==
    /\ Exists(s) /\ HasCombinators
    /\ Do("or_else", s, s,
          LAMBDA i, c : LET c1 == maybe_or_else(i, with_temps(c), RetObj, s, q, m)
                        IN  returns(c1, view_of(c1, RetObj)),
          IF q = "rref" THEN [abs EXCEPT ![s] = None] ELSE abs)

\* s.map(f).map(g) beside s.map(compose(g, f)): the temporary s.map(f) is
\* mapped through the && overload and destroyed at the end of the
\* expression; ret.out is what the two returned maybes show
MapMap(s, f, g) ==
    /\ Exists(s)
    /\ Do("map_map", s, s,
          LAMBDA i, c :
              LET c1 == map(i, with_temps(c), TmpObj, s, "lref", f)
                  c2 == map(i, c1, RetObj, TmpObj, "rref", g)
                  c3 == maybe_dtor(i, c2, TmpObj)
                  c4 == map(i, c3, OtherObj, s, "lref", compose(g, f))
              IN  returns(c4, << view_of(c4, RetObj), view_of(c4, OtherObj) >>),
          abs)

\* the implementations whose comparisons with none can be instantiated (in
\* src/monads/maybe.hpp and src/include/monads/maybe.hpp the constraint of
\* the maybe/value overload recurses on them)
HasNoneComparison == run \subseteq {"LG", "LT"}

\* the outcomes of a comparison that reads the elements of a and b: one
\* of them is flagged engaged and indeterminate (undefined, any of the
\* results), or the comparison is defined (the choice is not used)
UndefinedOutcomes(a, b, results) ==
    IF \E i \in run, s \in {a, b} : st[i][s].eng /\ st[i][s].val = Indet
    THEN results ELSE {CHOOSE r \in results : TRUE}

\* a == b;
Equal(a, b) ==
    /\ Exists(a) /\ Exists(b)
    /\ \E ub \in UndefinedOutcomes(a, b, BOOLEAN) :
         Do("eq", a, b, LAMBDA i, c : maybe_eq(c, a, b, ub), abs)

\* a == none;
EqualNone(a) ==
    /\ Exists(a) /\ HasNoneComparison
    /\ Do("eq_none", a, a, LAMBDA i, c : maybe_eq_none(c, a), abs)

\* a == v;
EqualValue(a, v) ==
    /\ Exists(a)
    /\ \E ub \in UndefinedOutcomes(a, a, BOOLEAN) :
         DoArg("eq_value", a, a, << v >>,
               LAMBDA i, c : maybe_eq_value(c, a, v, ub), abs)

\* a <=> b;
ThreeWay(a, b) ==
    /\ Exists(a) /\ Exists(b)
    /\ \E ub \in UndefinedOutcomes(a, b, {"less", "equal", "greater"}) :
         Do("three_way", a, b,
            LAMBDA i, c : IF i \in {"LG", "LT"}
                          THEN maybe_three_way(c, a, b, ub)
                          ELSE monads_maybe_three_way(c, a, b, ub),
            abs)

\* a <=> none;
ThreeWayNone(a) ==
    /\ Exists(a) /\ HasNoneComparison
    /\ Do("three_way_none", a, a, LAMBDA i, c : maybe_three_way_none(c, a), abs)

\* a <=> v;
ThreeWayValue(a, v) ==
    /\ Exists(a)
    /\ \E ub \in UndefinedOutcomes(a, a, {"less", "equal", "greater"}) :
         DoArg("three_way_value", a, a, << v >>,
               LAMBDA i, c : maybe_three_way_value(c, a, v, ub), abs)

\* One operation on the eithers a and b, arg the further arguments worth
\* keeping: est becomes what F leaves of the slots, eeff its effects.
EitherDoArg(op, a, b, arg, F(_)) ==
    /\ est'  = LET r == F(Ctx(est)) IN [s \in Slots |-> r.st[s]]
    /\ eeff' = LET r == F(Ctx(est))
               IN  [d |-> r.d, n |-> r.n, hz |-> r.hz,
                    calls |-> r.calls, ret |-> r.ret]
    /\ last' = [op |-> op, a |-> a, b |-> b, arg |-> arg]
    /\ eff'  = [i \in Impl |-> NoEff]
    /\ UNCHANGED <<st, abs, run>>

EitherDo(op, a, b, F(_)) == EitherDoArg(op, a, b, << >>, F)

\* either<L, R> s{left(v)};  /  either<L, R> s{right(v)};
EitherConstruct(s, side, v) ==
    /\ ~est[s].ex
    /\ EitherDoArg("either_" \o side, s, s, << v >>,
                   LAMBDA c : either_side_ctor(c, s, side, v))

\* either<L, R> d{s};
EitherCopyConstruct(d, s) ==
    /\ ~est[d].ex /\ est[s].ex
    /\ EitherDo("either_copy_construct", d, s, LAMBDA c : either_copy_ctor(c, d, s))

\* either<L, R> d{std::move(s)};
EitherMoveConstruct(d, s) ==
    /\ ~est[d].ex /\ est[s].ex
    /\ EitherDo("either_move_construct", d, s, LAMBDA c : either_move_ctor(c, d, s))

\* d = s;
EitherCopyAssign(d, s) ==
    /\ est[d].ex /\ est[s].ex
    /\ EitherDo("either_copy_assign", d, s, LAMBDA c : either_copy_assign(c, d, s))

\* d = std::move(s);
EitherMoveAssign(d, s) ==
    /\ est[d].ex /\ est[s].ex
    /\ EitherDo("either_move_assign", d, s, LAMBDA c : either_move_assign(c, d, s))

\* the either s goes out of scope
EitherDestroy(s) ==
    /\ est[s].ex
    /\ EitherDo("either_destroy", s, s, LAMBDA c : either_dtor(c, s))

\* s.borrow_left();  /  s.borrow_right();
Borrow(s, side) ==
    /\ est[s].ex
    /\ EitherDo("borrow_" \o side, s, s, LAMBDA c : borrow(c, s, side))

\* std::move(s).take_left();  /  std::move(s).take_right();
\* on an either (q = "rref") or on a const either (q = "crref")
TakeSide(s, side, q) ==
    /\ est[s].ex
    /\ EitherDo("take_" \o side, s, s, LAMBDA c : take(c, s, side, q))

\* std::move(s).transform_left(f);  /  std::move(s).transform_right(f);
\* ret.out is what the returned either shows; it is a temporary, destroyed
\* at the end of the statement. last.arg names the kind of the function's
\* results before the function
Transform(s, side, f) ==
    /\ est[s].ex
    /\ EitherDoArg("transform_" \o side, s, s, << "to_value", f >>,
           LAMBDA c :
              LET c0 == either_with_temps(c)
                  c1 == IF side = "left" THEN transform_left(c0, RetObj, s, f)
                                         ELSE transform_right(c0, RetObj, s, f)
                  c2 == returns(c1, either_view(c1, RetObj))
              IN  IF c1.ret.fail THEN c1
                  ELSE IF c2.st[RetObj].ex THEN either_dtor(c2, RetObj) ELSE c2)

\* std::move(s).flat_transform_left(fn);  /  ...flat_transform_right(fn);
FlatTransform(s, side, fn) ==
    /\ est[s].ex
    /\ EitherDoArg("flat_transform_" \o side, s, s, << "to_either", fn >>,
           LAMBDA c :
              LET c0 == either_with_temps(c)
                  c1 == IF side = "left" THEN flat_transform_left(c0, RetObj, s, fn)
                                         ELSE flat_transform_right(c0, RetObj, s, fn)
                  c2 == returns(c1, either_view(c1, RetObj))
              IN  IF c1.ret.fail THEN c1
                  ELSE IF c2.st[RetObj].ex THEN either_dtor(c2, RetObj) ELSE c2)

\* the shape of the state
TypeOK ==
    /\ st \in [Impl -> [Slots -> [ex : BOOLEAN, eng : BOOLEAN,
                                  obj : ObjStates, val : Vals]]]
    /\ abs \in [Slots -> {None} \cup {Some(v) : v \in Values}]
    /\ run \in SUBSET Impl
    /\ last.a \in Slots /\ last.b \in Slots
    /\ \A i \in Impl : /\ eff[i].d \in 0..2 /\ eff[i].n \in 0..3
                        /\ Len(eff[i].calls) \in 0..3
                        /\ eff[i].ret.fail \in BOOLEAN
    /\ \A i \in Impl, s \in Slots : ~st[i][s].ex => st[i][s] = Blank
    /\ est \in [Slots -> [ex : BOOLEAN, is_left : BOOLEAN,
                           left : [obj : ObjStates, val : Vals],
                           right : [obj : ObjStates, val : Vals]]]
    /\ eeff.d \in 0..2 /\ eeff.n \in 0..2 /\ Len(eeff.calls) \in 0..1
    /\ eeff.ret.fail \in BOOLEAN

InitRun(R) ==
    /\ st   = [i \in Impl |-> [s \in Slots |-> Blank]]
    /\ abs  = [s \in Slots |-> None]
    /\ run  = R
    /\ last = [op |-> "init", a |-> 1, b |-> 1, arg |-> << >>]
    /\ eff  = [i \in Impl |-> NoEff]
    /\ est  = [s \in Slots |-> NoEither]
    /\ eeff = NoEff

\* the generic storage of src/libreglisse/maybe.hpp beside the abstract optional
Init == InitRun({"LG"})

Next ==
    \/ \E s \in Slots : ConstructEmpty(s)
    \/ \E s \in Slots, v \in Values : ConstructValue(s, v)
    \/ \E d, s \in Slots : CopyConstruct(d, s)
    \/ \E d, s \in Slots : MoveConstruct(d, s)
    \/ \E d, s \in Slots : CopyAssign(d, s)
    \/ \E d, s \in Slots : MoveAssign(d, s)
    \/ \E s \in Slots : Reset(s)
    \/ \E a, b \in Slots : Swap(a, b)
    \/ \E d, s \in Slots : Take(d, s)
    \/ \E s \in Slots : Destroy(s)

Spec == Init /\ [][Next]_vars

\* the generic storage of src/libreglisse/maybe.hpp: containers copied,
\* and then reset, assigned and swapped, with each other and with a third
\* container that lives for one statement
NextCopy ==
    \/ \E s \in Slots : ConstructEmpty(s)
    \/ \E s \in Slots, v \in Values : ConstructValue(s, v)
    \/ \E d, s \in Slots : CopyConstruct(d, s)
    \/ \E d, s \in Slots : CopyAssign(d, s)
    \/ \E s \in Slots : Reset(s)
    \/ \E a, b \in Slots : Swap(a, b)
    \/ \E a \in Slots, m \in Maybes : SwapWith(a, m)
    \/ \E a \in Slots, m \in Maybes : AssignFrom(a, m)
    \/ \E s \in Slots : Destroy(s)

SpecCopy == Init /\ [][NextCopy]_vars

\* generic and trivial storage of src/libreglisse/maybe.hpp in lock step
InitEquiv == InitRun({"LG", "LT"})
SpecEquiv == InitEquiv /\ [][Next]_vars

\* src/monads/maybe.hpp: generic or trivial storage. It has no take(), and
\* its generic move constructor names rhs.value without calling it, so a
\* maybe is move constructed with the trivial storage only.
InitOld == \E i \in {"MG", "MT"} : InitRun({i})

NextOld ==
    \/ \E s \in Slots : ConstructEmpty(s)
    \/ \E s \in Slots, v \in Values : ConstructValue(s, v)
    \/ \E d, s \in Slots : CopyConstruct(d, s)
    \/ \E d, s \in Slots : run = {"MT"} /\ MoveConstruct(d, s)
    \/ \E d, s \in Slots : CopyAssign(d, s)
    \/ \E d, s \in Slots : MoveAssign(d, s)
    \/ \E s \in Slots : Reset(s)
    \/ \E a, b \in Slots : Swap(a, b)
    \/ \E s \in Slots : Destroy(s)

SpecOld == InitOld /\ [][NextOld]_vars

\* One container (the first) of any one of the implementations, with the
\* accessors and the combinators applied to it
InitUse == \E i \in Impl : InitRun({i})

NextUse ==
    \/ ConstructEmpty(1)
    \/ \E v \in Values : ConstructValue(1, v)
    \/ Reset(1)
    \/ Destroy(1)
    \/ \E q \in Quals : Value(1, q)
    \/ \E q \in Quals : Deref(1, q)
    \/ Arrow(1)
    \/ \E q \in Quals, d \in Defaults : ValueOr(1, q, d)
    \/ \E q \in Quals, f \in Funs : Map(1, q, f)
    \/ \E q \in Quals, f \in Funs, other \in Values : MapOr(1, q, f, other)
    \/ \E q \in Quals, f \in Funs, dv \in Values : MapOrElse(1, q, f, dv)
    \/ \E q \in Quals, fn \in MaybeFuns : AndThen(1, q, fn)
    \/ \E q \in Quals, m \in Maybes : OrElse(1, q, m)
    \/ \E f \in Funs, g \in Funs : MapMap(1, f, g)

SpecUse == InitUse /\ [][NextUse]_vars

\* The same container used as an lvalue only: a call on an lvalue selects
\* the & overload, on a const lvalue the const& overload (value_or has the
\* const& one for both)
LvalueQuals == {"lref", "cref"}

NextLvalue ==
    \/ ConstructEmpty(1)
    \/ \E v \in Values : ConstructValue(1, v)
    \/ Reset(1)
    \/ Destroy(1)
    \/ HasValue(1)
    \/ \E d \in Defaults : ValueOr(1, "cref", d)
    \/ \E q \in LvalueQuals, f \in Funs : Map(1, q, f)
    \/ \E q \in LvalueQuals, f \in Funs, other \in Values : MapOr(1, q, f, other)
    \/ \E q \in LvalueQuals, f \in Funs, dv \in Values : MapOrElse(1, q, f, dv)
    \/ \E q \in LvalueQuals, fn \in MaybeFuns : AndThen(1, q, fn)
    \/ \E q \in LvalueQuals, m \in Maybes : OrElse(1, q, m)

SpecLvalue == InitUse /\ [][NextLvalue]_vars

\* The containers of any one of the implementations, constructed empty or
\* from a value, and compared with each other, with none and with values.
\* Those of src/include/monads/maybe.hpp are also copy and move constructed
\* here (the other implementations are in Spec, SpecEquiv and SpecOld).
NextCompare ==
    \/ \E s \in Slots : ConstructEmpty(s)
    \/ \E s \in Slots, v \in Values : ConstructValue(s, v)
    \/ \E d, s \in Slots : run = {"IM"} /\ CopyConstruct(d, s)
    \/ \E d, s \in Slots : run = {"IM"} /\ MoveConstruct(d, s)
    \/ \E s \in Slots : Destroy(s)
    \/ \E a, b \in Slots : Equal(a, b)
    \/ \E a \in Slots : EqualNone(a)
    \/ \E a \in Slots, v \in Values : EqualValue(a, v)
    \/ \E a, b \in Slots : ThreeWay(a, b)
    \/ \E a \in Slots : ThreeWayNone(a)
    \/ \E a \in Slots, v \in Values : ThreeWayValue(a, v)

SpecCompare == InitUse /\ [][NextCompare]_vars

\* src/libreglisse/maybe.hpp with a non-trivial or a trivial element type:
\* containers constructed, reset, destroyed and taken from
InitTake == \E i \in {"LG", "LT"} : InitRun({i})

NextTake ==
    \/ \E s \in Slots : ConstructEmpty(s)
    \/ \E s \in Slots, v \in Values : ConstructValue(s, v)
    \/ \E s \in Slots : Reset(s)
    \/ \E d, s \in Slots : Take(d, s)
    \/ \E s \in Slots : Destroy(s)

SpecTake == InitTake /\ [][NextTake]_vars

\* the eithers of src/libreglisse/either.hpp: constructed, copied, moved,
\* assigned, read, taken from, transformed and destroyed
InitEither == InitRun({})

NextEither ==
    \/ \E s \in Slots, side \in Sides, v \in Values : EitherConstruct(s, side, v)
    \/ \E d, s \in Slots : EitherCopyConstruct(d, s)
    \/ \E d, s \in Slots : EitherMoveConstruct(d, s)
    \/ \E d, s \in Slots : EitherCopyAssign(d, s)
    \/ \E d, s \in Slots : EitherMoveAssign(d, s)
    \/ \E s \in Slots : EitherDestroy(s)
    \/ \E s \in Slots, side \in Sides : Borrow(s, side)
    \/ \E s \in Slots, side \in Sides, q \in {"rref", "crref"} :
          TakeSide(s, side, q)
    \/ \E s \in Slots, side \in Sides, f \in ConstFuns : Transform(s, side, f)

SpecEither == InitEither /\ [][NextEither]_vars

\* one either (the first) and the combinators applied to it
NextEitherUse ==
    \/ \E side \in Sides, v \in Values : EitherConstruct(1, side, v)
    \/ EitherDestroy(1)
    \/ \E side \in Sides, f \in Funs : Transform(1, side, f)
    \/ \E side \in Sides, fn \in EitherFuns : FlatTransform(1, side, fn)

SpecEitherUse == InitEither /\ [][NextEitherUse]_vars

\* ----------------------------------------------------------------- claims
\* what has_value() and value() show of a container record
ViewOf(r) == IF r.eng THEN Some(r.val) ELSE None

\* the bytes of r hold an element whose destructor has not run
HoldsElement(r) == r.obj \in {"live", "moved"}

\* C1: in the generic storage of src/libreglisse/maybe.hpp a slot holds a
\* live constructed element (moved-from ones included) exactly when its
\* engaged flag is true, and no operation assigns into a slot in which no
\* element has been constructed.
C1_FlagIffLiveElement ==
    /\ \A s \in Slots : st["LG"][s].eng <=> HoldsElement(st["LG"][s])
    /\ "raw_assign" \notin eff["LG"].hz

\* C2: has_value() of every container of the generic storage is true exactly
\* when the abstract optional run beside it is Some.
C2_HasValueIffSome ==
    \A s \in Slots : has_value("LG", s) <=> abs[s] # None

\* C2 witness: a move construction has taken the value out of an engaged
\* source: the destination reports a value and the source does not.
C2_Witness ==
    /\ last.op = "move_construct"
    /\ has_value("LG", last.a) /\ abs[last.a] # None
    /\ ~has_value("LG", last.b) /\ abs[last.b] = None

\* C3: maybe::swap of src/libreglisse/maybe.hpp exchanges the full state of
\* the two containers (engagement and held value) in all four presence
\* combinations.
C3_SwapExchangesState ==
    [][last'.op = "swap" =>
         \A i \in run :
            /\ ViewOf(st'[i][last'.a]) = ViewOf(st[i][last'.b])
            /\ ViewOf(st'[i][last'.b]) = ViewOf(st[i][last'.a])]_vars

\* C4: swap of src/monads/maybe.hpp (generic and trivial storage) leaves the
\* first container with the second's former engagement and value and the
\* second with the first's: (holding 1, empty) becomes (empty, holding 1).
C4_OldSwapExchanges ==
    [][(last'.op = "swap" /\ last'.a # last'.b) =>
         \A i \in run :
            LET a == last'.a
                b == last'.b
            IN  /\ st'[i][a].eng = st[i][b].eng
                /\ st'[i][b].eng = st[i][a].eng
                /\ st'[i][a].eng => st'[i][a].val = st[i][b].val
                /\ st'[i][b].eng => st'[i][b].val = st[i][a].val]_vars

\* C5: reset() of src/libreglisse/maybe.hpp leaves has_value() false, calls
\* the element's destructor once when the container was engaged and not at
\* all when it was empty; a reset() right after a reset() of the same
\* container changes nothing and destroys nothing.
C5_ResetIdempotent ==
    [][last'.op = "reset" =>
         LET s == last'.a
         IN  /\ ~st'["LG"][s].eng
             /\ eff'["LG"].d = (IF st["LG"][s].eng THEN 1 ELSE 0)
             /\ (last.op = "reset" /\ last.a = s) =>
                   (st'["LG"] = st["LG"] /\ eff'["LG"].d = 0)]_vars

\* C5 witness: an engaged container has been reset: it is empty and its
\* element was destroyed once.
C5_Witness ==
    /\ last.op = "reset"
    /\ ~has_value("LG", last.a)
    /\ eff["LG"].d = 1

\* C6: in src/monads/maybe.hpp a container is empty after reset(), and
\* neither a later reset() nor the container's destruction runs the
\* destructor of an element that has been destroyed already.
C6_OldResetEmpties ==
    \A i \in run :
        /\ last.op = "reset" => ~has_value(i, last.a)
        /\ last.op \in {"reset", "destroy"} => "bad_destroy" \notin eff[i].hz

\* C7: every element an engaged container of the generic storage held is
\* destroyed exactly once: a container that no longer holds a value (reset,
\* moved from, taken from, destroyed) has no undestroyed element left in its
\* bytes, no element is overwritten or abandoned undestroyed, and no
\* destructor runs where no element lives.
C7_DestroyedExactlyOnce ==
    /\ \A s \in Slots : ~st["LG"][s].eng => ~HoldsElement(st["LG"][s])
    /\ eff["LG"].hz \cap {"leak", "bad_destroy"} = {}

\* C8: move construction and move assignment from another container give
\* the destination the source's former engagement and value and leave the
\* source empty.
C8_MoveTransfers ==
    [][(last'.op \in {"move_construct", "move_assign"} /\ last'.a # last'.b) =>
         /\ ViewOf(st'["LG"][last'.a]) = ViewOf(st["LG"][last'.b])
         /\ ~st'["LG"][last'.b].eng]_vars

\* C8 witness: an engaged container has been move-assigned from an engaged
\* one: its old element was destroyed, it holds a value, the source is empty.
C8_Witness ==
    /\ last.op = "move_assign" /\ last.a # last.b
    /\ eff["LG"].d = 1
    /\ has_value("LG", last.a) /\ value("LG", last.a) \in Values
    /\ ~has_value("LG", last.b)

\* C9: the trivial and the generic storage of src/libreglisse/maybe.hpp
\* agree on has_value() and, where engaged, on value() of every container
\* after the same sequence of operations.
C9_TrivialEquivalent ==
    \A s \in Slots :
        /\ has_value("LG", s) = has_value("LT", s)
        /\ has_value("LG", s) => value("LG", s) = value("LT", s)

\* C10: a copy (construction or assignment) gives the destination the
\* source's engagement and value and leaves the source as it was; reset,
\* assignment and swap change no container but the ones they are applied to
\* (a copy assignment not even its source): a reset of one container, and
\* a swap of it with, or an assignment to it from, a third container leave
\* has_value() and value() of every other container, its copies among
\* them, as they were.
C10_CopyIndependent ==
    [][/\ (last'.op \in {"copy_construct", "copy_assign"}) =>
            /\ ViewOf(st'["LG"][last'.a]) = ViewOf(st["LG"][last'.b])
            /\ ViewOf(st'["LG"][last'.b]) = ViewOf(st["LG"][last'.b])
       /\ (last'.op \in {"reset", "copy_assign", "swap_with", "assign_from"}) =>
            \A s \in Slots \ {last'.a} :
                ViewOf(st'["LG"][s]) = ViewOf(st["LG"][s])
       /\ (last'.op = "swap") =>
            \A s \in Slots \ {last'.a, last'.b} :
                ViewOf(st'["LG"][s]) = ViewOf(st["LG"][s])]_vars

\* C10 witness: an engaged container has been copy-assigned from another
\* engaged one: both hold the same value.
C10_Witness ==
    /\ last.op = "copy_assign" /\ last.a # last.b
    /\ eff["LG"].d = 1 /\ eff["LG"].n = 1
    /\ has_value("LG", last.a) /\ has_value("LG", last.b)
    /\ value("LG", last.a) = value("LG", last.b)
    /\ value("LG", last.a) \in Values

\* C11: copy- or move-assigning onto an engaged container of the generic
\* storage destroys the element the destination held exactly once, and
\* before the new element is constructed (no element is constructed over a
\* live one; one element is constructed when the source is engaged, none
\* otherwise); a self-assignment destroys nothing, constructs nothing and
\* leaves every container as it was.
C11_AssignDestroysOldFirst ==
    [][last'.op \in {"copy_assign", "move_assign"} =>
         LET a == last'.a
             b == last'.b
         IN  /\ (a # b /\ st["LG"][a].eng) =>
                   /\ eff'["LG"].d = 1
                   /\ "leak" \notin eff'["LG"].hz
                   /\ eff'["LG"].n = (IF st["LG"][b].eng THEN 1 ELSE 0)
             /\ (a = b) =>
                   /\ eff'["LG"].d = 0 /\ eff'["LG"].n = 0
                   /\ st'["LG"] = st["LG"]]_vars

\* C11 witness: an engaged container has been move-assigned from an empty
\* one: its element was destroyed, nothing was constructed, it is empty.
C11_Witness ==
    /\ last.op = "move_assign" /\ last.a # last.b
    /\ eff["LG"].d = 1 /\ eff["LG"].n = 0
    /\ ~has_value("LG", last.a)

\* C12: in each implementation a container constructed from a value x
\* (directly or through make_maybe) is engaged and value() is x; a default
\* constructed container and one constructed from none are empty.
C12_ValueCtorEngages ==
    \A i \in run :
        /\ last.op = "construct_value" =>
              /\ has_value(i, last.a)
              /\ Some(value(i, last.a)) = abs[last.a]
        /\ last.op = "construct_empty" => ~has_value(i, last.a)

\* C13: value(), through any of its four overloads, stops in the failed
\* has_value() assertion and returns nothing when the container is empty
\* (has_value() false), and returns the held value without failing when it
\* is engaged.
C13_ValueChecksEngaged ==
    [][last'.op = "value" =>
         \A i \in run :
            LET r   == eff'[i].ret
                pre == st[i][last'.a]
            IN  IF pre.eng
                THEN ~r.fail /\ r.out = << pre.val >>
                ELSE r.fail /\ r.out = << >>]_vars

\* C13 witness: value() was called on an empty container and stopped in the
\* assertion.
C13_Witness ==
    /\ last.op = "value"
    /\ \E i \in run : ~has_value(i, last.a) /\ eff[i].ret.fail
                       /\ eff[i].ret.out = << >>

\* C14: operator* and operator-> on an empty container stop in the failed
\* assertion as value() does: neither returns the contents of an empty slot.
C14_DerefChecksEngaged ==
    \A i \in run :
        (last.op \in {"deref", "arrow"} /\ ~has_value(i, last.a)) =>
            (eff[i].ret.fail /\ eff[i].ret.out = << >>)

\* C15: value_or(d) never reaches the failed assertion; it returns the held
\* value when the container is engaged and d converted to the element type
\* (d/2 without its fraction) when it is empty.
C15_ValueOr ==
    [][last'.op = "value_or" =>
         \A i \in run :
            LET r   == eff'[i].ret
                pre == st[i][last'.a]
                d   == last'.arg[1]
            IN  /\ ~r.fail
                /\ r.out = (IF pre.eng THEN << pre.val >> ELSE << d \div 2 >>)]_vars

\* C15 witness: value_or(5/2) on an empty container gave 2.
C15_Witness ==
    /\ last.op = "value_or" /\ last.arg = << 5 >>
    /\ \E i \in run : /\ ~has_value(i, last.a)
                       /\ eff[i].ret = [fail |-> FALSE, out |-> << 2 >>]

\* C16: map(fn) on a container engaged with v invokes fn once, on v, and
\* returns an engaged maybe holding what fn returned (so the source's value
\* when fn is the identity at v); on an empty container it invokes nothing
\* and returns an empty maybe: the result is engaged exactly when the
\* source is.
C16_Map ==
    [][last'.op = "map" =>
         \A i \in run :
            LET r     == eff'[i].ret
                calls == eff'[i].calls
                pre   == st[i][last'.a]
            IN  /\ ~r.fail
                /\ (r.out # None) <=> pre.eng
                /\ pre.eng =>
                      /\ Len(calls) = 1
                      /\ calls[1].arg = << pre.val >>
                      /\ r.out = calls[1].res
                      /\ calls[1].res = calls[1].arg => r.out = Some(pre.val)
                /\ ~pre.eng => calls = << >>]_vars

\* C16 witness: map on a container holding 1 invoked fn once and returned a
\* maybe holding fn(1) = 2.
C16_Witness ==
    /\ last.op = "map"
    /\ \E i \in run :
          /\ has_value(i, last.a) /\ value(i, last.a) = 1
          /\ Len(eff[i].calls) = 1 /\ eff[i].calls[1].arg = << 1 >>
          /\ eff[i].ret.out = Some(2)

\* C17 as stated: no combinator (map, map_or, map_or_else, and_then,
\* or_else) invokes any function passed to it when the container is empty.
C17_NothingInvokedWhenEmpty ==
    [][last'.op \in {"map", "map_or", "map_or_else", "and_then", "or_else"} =>
         \A i \in run :
            ~st[i][last'.a].eng => eff'[i].calls = << >>]_vars

\* C17 amended: on an empty container map, map_or and and_then invoke
\* nothing and map_or_else does not invoke its mapping function; the
\* fallback function - the one passed to or_else, the second one passed to
\* map_or_else - is invoked, once.
C17_MappingFunNotInvokedWhenEmpty ==
    [][last'.op \in {"map", "map_or", "map_or_else", "and_then", "or_else"} =>
         \A i \in run :
            LET calls == eff'[i].calls
            IN  ~st[i][last'.a].eng =>
                  CASE last'.op = "or_else" ->
                         Len(calls) = 1 /\ calls[1].fn = "fun"
                    [] last'.op = "map_or_else" ->
                         Len(calls) = 1 /\ calls[1].fn = "def"
                    [] OTHER -> calls = << >>]_vars

\* C17 witness: map_or on an empty container returned the fallback value
\* and invoked nothing.
C17_Witness ==
    /\ last.op = "map_or"
    /\ \E i \in run : /\ ~has_value(i, last.a)
                       /\ eff[i].calls = << >>
                       /\ eff[i].ret.out \in {<< v >> : v \in Values}

\* C18: opt.map(f).map(g) and opt.map(compose(g, f)) show the same
\* engagement and the same held value, for every opt, f and g.
C18_MapComposition ==
    last.op = "map_map" =>
        \A i \in run : eff[i].ret.out[1] = eff[i].ret.out[2]

\* C18 witness: on a container holding 1, f(1) = 2 and g(2) = 1 were
\* invoked in turn, then the composition, and both results hold 1.
C18_Witness ==
    /\ last.op = "map_map"
    /\ \E i \in run :
          /\ Len(eff[i].calls) = 3
          /\ eff[i].calls[1].arg = << 1 >> /\ eff[i].calls[1].res = << 2 >>
          /\ eff[i].calls[2].arg = << 2 >> /\ eff[i].calls[2].res = << 1 >>
          /\ eff[i].ret.out = << Some(1), Some(1) >>

\* C19: and_then(fn) on a container engaged with v invokes fn on v and
\* returns what fn returned, not wrapped again: empty when fn returned an
\* empty maybe, engaged holding u when fn returned one holding u; on an
\* empty container it returns an empty maybe.
C19_AndThen ==
    [][last'.op = "and_then" =>
         \A i \in run :
            LET r     == eff'[i].ret
                calls == eff'[i].calls
                pre   == st[i][last'.a]
            IN  IF pre.eng
                THEN /\ Len(calls) = 1
                     /\ calls[1].arg = << pre.val >>
                     /\ r.out = calls[1].res
                ELSE r.out = None /\ calls = << >>]_vars

\* C19 witness: and_then on an engaged container whose fn returned an empty
\* maybe returned an empty maybe.
C19_Witness ==
    /\ last.op = "and_then"
    /\ \E i \in run :
          /\ has_value(i, last.a)
          /\ Len(eff[i].calls) = 1 /\ eff[i].calls[1].res = None
          /\ eff[i].ret.out = None

\* C20: or_else(fn) on an engaged container returns a maybe with the
\* container's engagement and value and does not invoke fn; on an empty
\* container it invokes fn once and returns what fn returned.
C20_OrElse ==
    [][last'.op = "or_else" =>
         \A i \in run :
            LET r     == eff'[i].ret
                calls == eff'[i].calls
                pre   == st[i][last'.a]
            IN  IF pre.eng
                THEN calls = << >> /\ r.out = Some(pre.val)
                ELSE Len(calls) = 1 /\ r.out = calls[1].res]_vars

\* C20 witness: or_else on an empty container invoked fn once and returned
\* the engaged maybe fn returned.
C20_Witness ==
    /\ last.op = "or_else"
    /\ \E i \in run :
          /\ ~has_value(i, last.a)
          /\ Len(eff[i].calls) = 1
          /\ eff[i].ret.out \in {Some(v) : v \in Values}

\* C21: map_or(fn, d) on a container engaged with v invokes fn once, on v,
\* and returns what fn returned; on an empty container it returns d and
\* invokes nothing. map_or_else(fn, def) on a container engaged with v
\* returns fn(v), on an empty one def(); each call invokes exactly one of
\* fn and def, exactly once.
C21_MapOr ==
    [][last'.op \in {"map_or", "map_or_else"} =>
         \A i \in run :
            LET r     == eff'[i].ret
                calls == eff'[i].calls
                pre   == st[i][last'.a]
            IN  /\ ~r.fail
                /\ pre.eng =>
                      /\ Len(calls) = 1
                      /\ calls[1].fn = "fun"
                      /\ calls[1].arg = << pre.val >>
                      /\ r.out = calls[1].res
                /\ ~pre.eng /\ last'.op = "map_or" =>
                      calls = << >> /\ r.out = last'.arg
                /\ ~pre.eng /\ last'.op = "map_or_else" =>
                      /\ Len(calls) = 1
                      /\ calls[1].fn = "def"
                      /\ calls[1].arg = << >>
                      /\ r.out = calls[1].res]_vars

\* C21 witness: map_or_else on a container holding 2 invoked fn on 2, not
\* def, and returned fn(2) = 1.
C21_Witness ==
    /\ last.op = "map_or_else"
    /\ \E i \in run :
          /\ has_value(i, last.a) /\ value(i, last.a) = 2
          /\ Len(eff[i].calls) = 1 /\ eff[i].calls[1].fn = "fun"
          /\ eff[i].calls[1].arg = << 2 >>
          /\ eff[i].ret.out = << 1 >>

\* C22: has_value(), value_or, map, map_or, map_or_else, and_then and
\* or_else called on an lvalue leave the container they are called on as it
\* was: the same engagement, the same held value, the same element.
C22_LvalueCallsDoNotMutate ==
    [][last'.op \in {"has_value", "value_or", "map", "map_or", "map_or_else",
                     "and_then", "or_else"} =>
         \A i \in run : st'[i][last'.a] = st[i][last'.a]]_vars

\* C22 witness: or_else on an lvalue holding 2 returned a maybe holding 2 and
\* the container still holds 2, its element not moved from.
C22_Witness ==
    /\ last.op = "or_else"
    /\ \E i \in run :
          /\ eff[i].ret.out = Some(2)
          /\ has_value(i, last.a) /\ value(i, last.a) = 2
          /\ st[i][last.a].obj = "live"

\* C23: a == b is true for two empty maybes, false for an empty and an
\* engaged one, and for two engaged ones true exactly when the held values
\* are equal; a == none is true exactly when a is empty; a == v is true
\* exactly when a is engaged and holds v.
C23_Equality ==
    [][last'.op \in {"eq", "eq_none", "eq_value"} =>
         \A i \in run :
            LET r == eff'[i].ret
                l == st[i][last'.a]
                m == st[i][last'.b]
            IN  /\ ~r.fail
                /\ last'.op = "eq" =>
                      r.out = << IF l.eng /\ m.eng THEN l.val = m.val
                                 ELSE ~l.eng /\ ~m.eng >>
                /\ last'.op = "eq_none" => r.out = << ~l.eng >>
                /\ last'.op = "eq_value" =>
                      r.out = << l.eng /\ << l.val >> = last'.arg >>]_vars

\* C23 witness: two different containers both holding 2 compared equal.
C23_Witness ==
    /\ last.op = "eq" /\ last.a # last.b
    /\ \E i \in run :
          /\ has_value(i, last.a) /\ value(i, last.a) = 2
          /\ has_value(i, last.b) /\ value(i, last.b) = 2
          /\ eff[i].ret.out = << TRUE >>

\* what x <=> y and x == y give for two maybes of implementation i that
\* show x and y, constructed for the comparison
Ordering(i, x, y) ==
    LET c1 == fn_result(i, with_temps(Ctx(st[i])), TmpObj, x)
        c2 == fn_result(i, c1, OtherObj, y)
    IN  maybe_three_way(c2, TmpObj, OtherObj, "equal").ret.out[1]

Equals(i, x, y) ==
    LET c1 == fn_result(i, with_temps(Ctx(st[i])), TmpObj, x)
        c2 == fn_result(i, c1, OtherObj, y)
    IN  maybe_eq(c2, TmpObj, OtherObj, TRUE).ret.out[1]

\* the ordering seen from the other side
Reversed(o) == IF o = "less" THEN "greater" ELSE IF o = "greater" THEN "less" ELSE o

\* C24: in src/libreglisse/maybe.hpp a <=> b is equal for two empty maybes,
\* less for an empty and an engaged one, greater for an engaged and an empty
\* one, and for two engaged ones the ordering of the held values; an empty
\* maybe is less than every value, an engaged one is greater than none.
\* Over all maybes <=> is a total order (reflexive, antisymmetric,
\* transitive, every pair ordered) that is equal exactly when == is true.
C24_ThreeWay ==
    [][last'.op \in {"three_way", "three_way_none", "three_way_value"} =>
         \A i \in run \cap {"LG", "LT"} :
            LET r == eff'[i].ret
                l == st[i][last'.a]
                m == st[i][last'.b]
            IN  /\ ~r.fail
                /\ last'.op = "three_way" =>
                      r.out = << IF l.eng /\ m.eng THEN three_way(l.val, m.val)
                                 ELSE IF l.eng THEN "greater"
                                 ELSE IF m.eng THEN "less" ELSE "equal" >>
                /\ last'.op = "three_way_none" =>
                      r.out = << IF l.eng THEN "greater" ELSE "equal" >>
                /\ last'.op = "three_way_value" =>
                      r.out = << IF l.eng THEN three_way(l.val, last'.arg[1])
                                 ELSE "less" >>
                /\ \A x, y \in Maybes :
                      /\ Ordering(i, x, y) = Reversed(Ordering(i, y, x))
                      /\ (Ordering(i, x, y) = "equal") <=> (x = y)
                      /\ (Ordering(i, x, y) = "equal") <=> Equals(i, x, y)
                      /\ \A z \in Maybes :
                            Ordering(i, x, y) = "less" /\ Ordering(i, y, z) = "less"
                               => Ordering(i, x, z) = "less"]_vars

\* C24 witness: in src/libreglisse/maybe.hpp an empty container compared
\* with one holding 1 is less.
C24_Witness ==
    /\ last.op = "three_way"
    /\ \E i \in run \cap {"LG", "LT"} :
          /\ ~has_value(i, last.a)
          /\ has_value(i, last.b) /\ value(i, last.b) = 1
          /\ eff[i].ret.out = << "less" >>

\* C25: in src/monads/maybe.hpp and src/include/monads/maybe.hpp a <=> b
\* for two engaged maybes is the ordering of the two held values.
C25_OldThreeWayComparesValues ==
    [][last'.op = "three_way" =>
         \A i \in run \cap {"MG", "MT", "IM"} :
            LET l == st[i][last'.a]
                m == st[i][last'.b]
            IN  l.eng /\ m.eng =>
                   eff'[i].ret.out = << three_way(l.val, m.val) >>]_vars

\* C26: d = s.take() in src/libreglisse/maybe.hpp, with a trivial or a
\* non-trivial element type: d shows the engagement and the value s showed
\* before the call, and s is empty afterwards; taking from an empty s gives
\* an empty d and leaves s empty.
C26_Take ==
    [][last'.op = "take" =>
         \A i \in run :
            /\ st'[i][last'.a].ex
            /\ ViewOf(st'[i][last'.a]) = ViewOf(st[i][last'.b])
            /\ ~st'[i][last'.b].eng]_vars

\* C26 witness: with a trivial element type, take() on a container holding
\* 2 returned a maybe holding 2 and left the container empty.
C26_Witness ==
    /\ last.op = "take" /\ run = {"LT"}
    /\ has_value("LT", last.a) /\ value("LT", last.a) = 2
    /\ ~has_value("LT", last.b)

\* the member of the either record e that its discriminant names, and the
\* other one
ActiveOf(e) == IF e.is_left THEN e.left ELSE e.right
InactiveOf(e) == IF e.is_left THEN e.right ELSE e.left

\* C27: every either has exactly one active side: is_left() is the negation
\* of is_right(), the member the discriminant names holds the element and
\* the other member holds none. An either constructed from left(x) is left
\* holding x, from right(y) right holding y; after a copy or move
\* construction and after a copy or move assignment d = s, d is on the side
\* s was on and holds the value s held.
C27_EitherOneActiveSide ==
    [][/\ \A s \in Slots :
            est'[s].ex =>
               /\ is_left(Ctx(est'), s) = ~is_right(Ctx(est'), s)
               /\ ActiveOf(est'[s]).obj \in {"live", "moved"}
               /\ InactiveOf(est'[s]).obj = "none"
       /\ last'.op = "either_left" =>
             /\ est'[last'.a].ex /\ est'[last'.a].is_left
             /\ est'[last'.a].left = [obj |-> "live", val |-> last'.arg[1]]
       /\ last'.op = "either_right" =>
             /\ est'[last'.a].ex /\ ~est'[last'.a].is_left
             /\ est'[last'.a].right = [obj |-> "live", val |-> last'.arg[1]]
       /\ last'.op \in {"either_copy_construct", "either_move_construct",
                        "either_copy_assign", "either_move_assign"} =>
             /\ est'[last'.a].ex
             /\ est'[last'.a].is_left = est[last'.b].is_left
             /\ ActiveOf(est'[last'.a]).val = ActiveOf(est[last'.b]).val
             /\ last'.op \in {"either_copy_construct", "either_copy_assign"} =>
                   est'[last'.b] = est[last'.b]]_vars

\* C27 witness: a copy assignment d = s destroyed d's element and made d,
\* like s, a right holding 2.
C27_Witness ==
    /\ last.op = "either_copy_assign" /\ last.a # last.b
    /\ eeff.d = 1 /\ eeff.n = 1
    /\ ~est[last.a].is_left /\ est[last.a].right.val = 2
    /\ ~est[last.b].is_left /\ est[last.b].right.val = 2
    /\ est[last.a].left.obj = "none"

\* C28: borrow_left and take_left stop in the invalid-access failure, and
\* return nothing, exactly when the either is on the right; borrow_right
\* and take_right exactly when it is on the left; on the active side they
\* return the held value.
C28_WrongSideFails ==
    [][last'.op \in {"borrow_left", "take_left", "borrow_right", "take_right"} =>
         LET pre    == est[last'.a]
             wanted == last'.op \in {"borrow_left", "take_left"}
         IN  /\ eeff'.ret.fail <=> (pre.is_left # wanted)
             /\ eeff'.ret.fail => eeff'.ret.out = << >>
             /\ ~eeff'.ret.fail => eeff'.ret.out = << ActiveOf(pre).val >>]_vars

\* C28 witness: take_right on an either that is on the left stopped in the
\* failure and returned nothing.
C28_Witness ==
    /\ last.op = "take_right"
    /\ est[last.a].ex /\ est[last.a].is_left
    /\ eeff.ret.fail /\ eeff.ret.out = << >>

\* C29: transform_left(fn) on a left holding x invokes fn once, on x, and
\* yields a left holding fn(x); on a right holding y it invokes nothing and
\* yields a right holding y. flat_transform_left(fn) on a left holding x
\* yields fn(x) itself, on a right holding y a right holding y.
\* transform_right and flat_transform_right do the same with the sides
\* exchanged.
C29_EitherCombinators ==
    [][last'.op \in {"transform_left", "transform_right",
                     "flat_transform_left", "flat_transform_right"} =>
         LET pre      == est[last'.a]
             targeted == IF last'.op \in {"transform_left", "flat_transform_left"}
                         THEN "left" ELSE "right"
             on       == IF pre.is_left THEN "left" ELSE "right"
             x        == ActiveOf(pre).val
             fn       == last'.arg[2]
             calls    == eeff'.calls
         IN  IF on = targeted
             THEN /\ Len(calls) = 1 /\ calls[1].arg = << x >>
                  /\ eeff'.ret.out =
                        IF last'.op \in {"transform_left", "transform_right"}
                        THEN << on, fn[x] >> ELSE fn[x]
             ELSE /\ calls = << >>
                  /\ eeff'.ret.out = << on, x >>]_vars

\* the number of elements, live or moved from, that the eithers e hold
ElementsOf(e) ==
    Cardinality({ m \in Slots \X Sides :
                    e[m[1]][m[2]].obj \in {"live", "moved"} })

\* C30: moving out of an either (move construction or move assignment from
\* it, take_left, take_right, a transform on it) leaves the source in
\* existence with its discriminant unchanged; no operation destroys an element
\* twice or an inactive one, or constructs over one that was not destroyed;
\* and the constructions less the destructions of every operation are the
\* change in the number of elements held, so that once every either is
\* destroyed as many elements were destroyed as constructed.
C30_MoveKeepsSideLifetimesBalance ==
    [][/\ eeff'.hz = {}
       /\ eeff'.n - eeff'.d = ElementsOf(est') - ElementsOf(est)
       /\ last'.op \in {"either_move_construct", "either_move_assign",
                        "take_left", "take_right",
                        "transform_left", "transform_right"} =>
             /\ est'[last'.b].ex
             /\ est'[last'.b].is_left = est[last'.b].is_left]_vars

\* a move assignment between two eithers of different sides has happened:
\* the old element was destroyed, one was constructed, the source is moved
\* from and still on its side
C30_Witness ==
    /\ last.op = "either_move_assign" /\ last.a # last.b
    /\ eeff.d = 1 /\ eeff.n = 1
    /\ est[last.b].ex /\ ~est[last.b].is_left
    /\ est[last.b].right.obj = "moved"
    /\ ~est[last.a].is_left /\ est[last.a].right.obj = "live"

====
